---- MODULE Spec2Model ----
(***************************************************************************)
(* Incremental decoding of XLM/src/model/transformer.py: the attention     *)
(* cache (MultiHeadAttention.forward), the decoder pass                    *)
(* (TransformerModel.fwd), greedy / sampling decoding (generate), beam     *)
(* search (generate_beam) and the hypothesis pool (BeamHypotheses).        *)
(*                                                                         *)
(* Tensors are symbolic.  A tensor of shape (bs, time, dim) is a sequence  *)
(* over the batch rows of a sequence over time of terms; a term records    *)
(* what a vector was computed from, so two vectors are equal when they     *)
(* were computed from the same inputs in the same way.  The numeric        *)
(* backend (matmul, softmax, layer norm, the feed-forward sublayer) is     *)
(* deterministic and pointwise in (row, time), hence a function of the     *)
(* term.  Index i of a sequence stands for Python index i - 1.             *)
(***************************************************************************)
EXTENDS Integers, Sequences, FiniteSets, TLC

VARIABLES
    cache,           \* TransformerModel.cache (shared with every attention module)
    pc,              \* control location of the call in flight
    fw,              \* frame of a direct decoder pass (TransformerModel.fwd)
    gen,             \* frame of TransformerModel.generate
    bm,              \* frame of TransformerModel.generate_beam
    generated_hyps,  \* the BeamHypotheses objects, one per sentence
    oracle           \* the prediction layer as learnt so far: hidden state -> scores

vars == <<cache, pc, fw, gen, bm, generated_hyps, oracle>>

---------------------------------------------------------------------------
(* Parameters and bounds *)

eos_index == 1
pad_index == 2
\* largest batch size
MaxBs == 2
\* largest beam width
MaxBeam == 2
\* largest maximum length (max_len) a call is given
MaxLen == 4
\* largest token buffer (bs * global_max_len) of a call of generate
MaxTokens == 6
\* largest token buffer (bs * beam_size * global_max_len) of a call of generate_beam
MaxCells == 8
\* number of decoder layers
n_layers == 2
\* vocabulary: eos, pad and enough other words to fill every beam
n_words == 3
Words == 0 .. (n_words - 1)

---------------------------------------------------------------------------
(* Sequences and Python slicing *)

Range(s) == {s[i] : i \in DOMAIN s}

SeqMax(s) == CHOOSE m \in Range(s) : \A y \in Range(s) : y <= m

\* s[-n:] on a sequence of length Len(s); note that s[-0:] is s[0:], all of s
PyTail(s, n) ==
    IF n = 0 THEN s
    ELSE IF n > 0 THEN (IF n >= Len(s) THEN s ELSE SubSeq(s, Len(s) - n + 1, Len(s)))
    ELSE (IF -n >= Len(s) THEN << >> ELSE SubSeq(s, 1 - n, Len(s)))

\* s[:n] for 0 <= n
PyHead(s, n) == IF n >= Len(s) THEN s ELSE SubSeq(s, 1, n)

\* x.size(1) of a (bs, time, ...) tensor
TimeLen(t) == IF Len(t) = 0 THEN 0 ELSE Len(t[1])

\* t[:, -n:]
TailRows(t, n) == [b \in 1 .. Len(t) |-> PyTail(t[b], n)]

\* t[mask] along the batch axis, mask a boolean sequence of the same length
MaskRows(t, mask) ==
    LET idx == SelectSeq([b \in 1 .. Len(t) |-> b], LAMBDA b : mask[b])
    IN  [n \in 1 .. Len(idx) |-> t[idx[n]]]

\* t[index] along the batch axis, index a sequence of row numbers (gather)
GatherRows(t, index) == [n \in 1 .. Len(index) |-> t[index[n]]]

---------------------------------------------------------------------------
(* Terms *)

\* embeddings(x) + position_embeddings(positions), normalised
Emb(tok, pos) == <<"emb", tok, pos>>
\* a row zeroed by the validity mask
Zero == <<"zero">>
\* the encoder output of source sentence s at source position j
SrcTerm(s, j) == <<"src", s, j>>
\* k_lin / v_lin applied to a vector
KeyOf(h) == <<"k", h>>
ValOf(h) == <<"v", h>>
\* one attended (key, value) pair; a pair projected from the same vector h
\* is written h
CtxOf(k, v) == IF k[2] = v[2] THEN k[2] ELSE <<"kv", k, v>>
\* the output of an attention sublayer for one query: out_lin(softmax(q.k) v),
\* added to the query's vector and normalised
AttTerm(layer_id, q, ctx) == <<"att", layer_id, q, ctx>>

---------------------------------------------------------------------------
(* get_masks *)

\* a plausible slip: a position does not attend itself
CausalEntry_Strict(q, k) == k < q

\* alen[None, None, :].repeat(bs, slen, 1) <= alen[None, :, None], at query
\* position q and key position k (0-based)
CausalEntry(q, k) == k <= q

get_masks(slen, lengths, causal) ==
    [ err  |-> Len(lengths) > 0 /\ SeqMax(lengths) > slen,
      mask |-> [b \in 1 .. Len(lengths) |-> [t \in 1 .. slen |-> (t - 1) < lengths[b]]],
      attn_mask |->
          IF causal
          THEN [b \in 1 .. Len(lengths) |->
                   [q \in 1 .. slen |-> [k \in 1 .. slen |-> CausalEntry(q - 1, k - 1)]]]
          ELSE [b \in 1 .. Len(lengths) |-> [t \in 1 .. slen |-> (t - 1) < lengths[b]]],
      dim  |-> IF causal THEN 3 ELSE 2 ]

---------------------------------------------------------------------------
(* The attention cache *)

\* self.cache = None
NoCache == [alive |-> FALSE, slen |-> 0, kv |-> << >>]
\* self.cache = {'slen': 0}
FreshCache == [alive |-> TRUE, slen |-> 0, kv |-> << >>]

\* layer_id = next(NEW_ID): the constructor creates attentions[i], then encoder_attn[i]
SelfId(i) == 2 * i
CrossId(i) == 2 * i + 1
SelfIds == {SelfId(i) : i \in 0 .. (n_layers - 1)}
CrossIds == {CrossId(i) : i \in 0 .. (n_layers - 1)}

\* cache[layer_id] = entry
CachePut(c, layer_id, entry) ==
    [c EXCEPT !.kv = [id \in (DOMAIN c.kv) \cup {layer_id} |->
                          IF id = layer_id THEN entry ELSE c.kv[id]]]

---------------------------------------------------------------------------
(* MultiHeadAttention.forward *)

\* a plausible slip: the guard is left out
CacheMissing_Never(use_cache, c) == FALSE

\* use_cache and self.cache is None
CacheMissing(use_cache, c) == use_cache /\ ~c.alive

\* a plausible slip: the new time steps are put before the cached ones
CatTime_NewFirst(old, new) == [b \in 1 .. Len(new) |-> new[b] \o old[b]]

\* torch.cat([k_, k], dim=2): the cached time steps, then the new ones
CatTime(old, new) == [b \in 1 .. Len(new) |-> old[b] \o new[b]]

\* a plausible slip: the keys of the source are appended to the cached ones, as
\* for self attention
CachedCross_Appended(entry, new) == CatTime(entry, new)

\* k, v = self.cache[self.layer_id]: the cached tensor, as it is
CachedCross(entry, new) == entry

\* a plausible slip: the keys and values are stored whether or not the cache
\* is in use
StoresEntry_Always(use_cache) == TRUE

\* if use_cache: ... self.cache[self.layer_id] = (k, v)
StoresEntry(use_cache) == use_cache

NoKV == [isNone |-> TRUE, t |-> << >>]
SomeKV(t) == [isNone |-> FALSE, t |-> t]

MultiHeadAttention_forward(layer_id, input, mask, mask_dim, kv, use_cache, c) ==
    LET bs      == Len(input)
        qlen    == TimeLen(input)
        incache == layer_id \in DOMAIN c.kv
        klen    == IF kv.isNone
                   THEN (IF use_cache THEN c.slen + qlen ELSE qlen)
                   ELSE TimeLen(kv.t)
        from    == IF kv.isNone THEN input ELSE kv.t
        knew    == [b \in 1 .. Len(from) |-> [t \in 1 .. Len(from[b]) |-> KeyOf(from[b][t])]]
        vnew    == [b \in 1 .. Len(from) |-> [t \in 1 .. Len(from[b]) |-> ValOf(from[b][t])]]
        reuse   == use_cache /\ incache
        \* torch.cat along time needs the other dimensions to agree
        catErr  == reuse /\ kv.isNone /\ Len(c.kv[layer_id][1]) # bs
        k       == IF ~reuse THEN knew
                   ELSE IF ~kv.isNone THEN CachedCross(c.kv[layer_id][1], knew)
                   ELSE CatTime(c.kv[layer_id][1], knew)
        v       == IF ~reuse THEN vnew
                   ELSE IF ~kv.isNone THEN CachedCross(c.kv[layer_id][2], vnew)
                   ELSE CatTime(c.kv[layer_id][2], vnew)
        c2      == IF StoresEntry(use_cache) THEN CachePut(c, layer_id, <<k, v>>) ELSE c
        \* scores is (bs, n_heads, qlen, time of k); the mask is viewed as
        \* (bs, 1, qlen, klen) or (bs, 1, 1, klen) and expanded to scores
        maskOk  == /\ Len(mask) = bs
                   /\ IF mask_dim = 3
                      THEN qlen = 0 \/ (TimeLen(mask) = qlen /\ Len(mask[1][1]) = klen)
                      ELSE TimeLen(mask) = klen
        shapeOk == Len(k) = bs /\ TimeLen(k) = klen /\ TimeLen(v) = klen /\ maskOk
        vis(b, q, j) == IF mask_dim = 3 THEN mask[b][q][j] ELSE mask[b][j]
        ctx(b, q) ==
            LET idx == SelectSeq([j \in 1 .. klen |-> j], LAMBDA j : vis(b, q, j))
            IN  [n \in 1 .. Len(idx) |-> CtxOf(k[b][idx[n]], v[b][idx[n]])]
    IN  IF CacheMissing(use_cache, c)
        THEN [err |-> "assert", out |-> << >>, cache |-> c]
        ELSE IF catErr
        THEN [err |-> "shape", out |-> << >>, cache |-> c]
        ELSE IF ~shapeOk
        THEN [err |-> "shape", out |-> << >>, cache |-> c2]
        ELSE [err |-> "",
              out |-> [b \in 1 .. bs |-> [q \in 1 .. qlen |->
                          AttTerm(layer_id, input[b][q], ctx(b, q))]],
              cache |-> c2]

---------------------------------------------------------------------------
(* TransformerModel.fwd *)

NoPositions == [isNone |-> TRUE, t |-> << >>]
SomePositions(t) == [isNone |-> FALSE, t |-> t]

\* the arguments of fwd; x, positions are (bs, slen) (the caller's (slen, bs),
\* transposed at the top of fwd)
FwdArgs(x, lengths, causal, src_enc, src_len, positions, use_cache) ==
    [x |-> x, lengths |-> lengths, causal |-> causal, src_enc |-> src_enc,
     src_len |-> src_len, positions |-> positions, use_cache |-> use_cache]

FwdFailed(c) ==
    [err |-> "assert", tensor |-> << >>, mask |-> << >>, attn_mask |-> << >>,
     attn_dim |-> 3, src_mask |-> << >>, src_enc |-> NoKV, use_cache |-> FALSE,
     cache |-> c]

\* input checks, masks, positions, the slice of the new time steps, embeddings
FwdEnter(a, c) ==
    LET slen      == TimeLen(a.x)
        bs        == Len(a.x)
        m         == get_masks(slen, a.lengths, a.causal)
        src_mask  == IF a.src_enc.isNone THEN << >>
                     ELSE [b \in 1 .. bs |->
                              [j \in 1 .. TimeLen(a.src_enc.t) |-> (j - 1) < a.src_len[b]]]
        positions == IF a.positions.isNone
                     THEN [b \in 1 .. bs |-> [t \in 1 .. slen |-> t - 1]]
                     ELSE a.positions.t
        new_slen  == slen - c.slen
        x1        == IF a.use_cache THEN TailRows(a.x, new_slen) ELSE a.x
        pos1      == IF a.use_cache THEN TailRows(positions, new_slen) ELSE positions
        mask1     == IF a.use_cache THEN TailRows(m.mask, new_slen) ELSE m.mask
        attn1     == IF a.use_cache THEN TailRows(m.attn_mask, new_slen) ELSE m.attn_mask
    IN  IF CacheMissing(a.use_cache, c) THEN FwdFailed(c)
        ELSE IF Len(a.lengths) # bs \/ m.err THEN FwdFailed(c)
        ELSE IF ~a.src_enc.isNone /\ Len(a.src_enc.t) # bs THEN FwdFailed(c)
        ELSE IF ~a.positions.isNone
                /\ (Len(a.positions.t) # bs \/ TimeLen(a.positions.t) # slen)
        THEN FwdFailed(c)
        ELSE [err       |-> "",
              tensor    |-> [b \in 1 .. bs |-> [t \in 1 .. TimeLen(x1) |->
                                IF mask1[b][t] THEN Emb(x1[b][t], pos1[b][t]) ELSE Zero]],
              mask      |-> mask1,
              attn_mask |-> attn1,
              attn_dim  |-> m.dim,
              src_mask  |-> src_mask,
              src_enc   |-> a.src_enc,
              use_cache |-> a.use_cache,
              cache     |-> c]

\* layer i, self attention: attentions[i](tensor, attn_mask), residual, layer_norm1
FwdSelfAttn(p, i) ==
    LET r == MultiHeadAttention_forward(SelfId(i), p.tensor, p.attn_mask, p.attn_dim,
                                        NoKV, p.use_cache, p.cache)
    IN  [p EXCEPT !.err = r.err, !.tensor = r.out, !.cache = r.cache]

\* layer i, encoder attention (when decoding against a source), residual,
\* layer_norm15, then the feed-forward sublayer, layer_norm2 and the validity mask
FwdEncFfn(p, i) ==
    LET r == IF p.src_enc.isNone
             THEN [err |-> "", out |-> p.tensor, cache |-> p.cache]
             ELSE MultiHeadAttention_forward(CrossId(i), p.tensor, p.src_mask, 2,
                                             p.src_enc, p.use_cache, p.cache)
    IN  [p EXCEPT !.err = r.err,
                  !.tensor = IF r.err # "" THEN << >>
                             ELSE [b \in 1 .. Len(r.out) |-> [t \in 1 .. Len(r.out[b]) |->
                                      IF p.mask[b][t] THEN r.out[b][t] ELSE Zero]],
                  !.cache = r.cache]

\* a plausible slip: the accumulated length is not updated
FwdExit_NoUpdate(p) == p

\* update cache length
FwdExit(p) ==
    IF p.use_cache
    THEN [p EXCEPT !.cache = [p.cache EXCEPT !.slen = p.cache.slen + TimeLen(p.tensor)]]
    ELSE p

RECURSIVE FwdLayers(_, _)
FwdLayers(p, i) ==
    IF p.err # "" \/ i >= n_layers THEN p
    ELSE LET p1 == FwdSelfAttn(p, i)
         IN  IF p1.err # "" THEN p1 ELSE FwdLayers(FwdEncFfn(p1, i), i + 1)

\* the whole pass: [err, tensor, cache]
Fwd(a, c) ==
    LET p0 == FwdEnter(a, c)
        p1 == FwdLayers(p0, 0)
    IN  IF p1.err # "" THEN p1 ELSE FwdExit(p1)

---------------------------------------------------------------------------
(* Inputs of a call *)

\* source sentence s (1-based) has s valid source positions; the encoder output
\* of a batch of bs sentences is padded to bs positions
SrcLenOf(s) == s
SrcRow(s, src_seq_len) == [j \in 1 .. src_seq_len |-> SrcTerm(s, j)]

\* src_enc and src_len restricted to / expanded over the sentences sents
SrcEnc(sents, src_seq_len) == [n \in 1 .. Len(sents) |-> SrcRow(sents[n], src_seq_len)]
SrcLen(sents) == [n \in 1 .. Len(sents) |-> SrcLenOf(sents[n])]

\* the uncached pass over one sentence alone: tokens toks decoded against source s
FwdAlone(toks, s, src_seq_len) ==
    Fwd(FwdArgs(<<toks>>, <<Len(toks)>>, TRUE, SomeKV(SrcEnc(<<s>>, src_seq_len)),
                SrcLen(<<s>>), NoPositions, FALSE), NoCache)

---------------------------------------------------------------------------
(* Scores.  A summed log-probability is an integer (a multiple of the unit  *)
(* the model's log-probabilities are measured in); a normalised score       *)
(* sum / length ** length_penalty is the fraction <<n, d>> in lowest terms, *)
(* d > 0, and fractions are compared exactly.                               *)

RECURSIVE Pow(_, _)
Pow(b, e) == IF e = 0 THEN 1 ELSE b * Pow(b, e - 1)

Abs(n) == IF n < 0 THEN -n ELSE n

RECURSIVE Gcd(_, _)
Gcd(a, b) == IF b = 0 THEN a ELSE Gcd(b, a % b)

Rat(n, d) == LET g == Gcd(Abs(n), d) IN <<n \div g, d \div g>>

RLess(a, b) == a[1] * b[2] < b[1] * a[2]
RLeq(a, b) == a[1] * b[2] <= b[1] * a[2]

\* the values 1e9 and -1e9 of the source, far outside the range of any summed
\* log-probability; written 10^6 so that every product stays a machine integer
WorstInit == 1000000
NegInit == -1000000

\* length_penalty values a call is given
LengthPenalties == {0, 1, 2}

---------------------------------------------------------------------------
(* BeamHypotheses *)

BeamHypotheses_init(n_hyp, max_len, length_penalty, early_stopping) ==
    [n_hyp |-> n_hyp, max_len |-> max_len - 1, length_penalty |-> length_penalty,
     early_stopping |-> early_stopping, hyp |-> << >>, worst_score |-> Rat(WorstInit, 1)]

\* (s1, idx1) < (s2, idx2) as Python orders tuples
PairBefore(hyp, i, j) ==
    RLess(hyp[i][1], hyp[j][1]) \/ (hyp[i][1] = hyp[j][1] /\ i < j)

\* sorted([(s, idx) for idx, (s, _) in enumerate(self.hyp)]): the indices of hyp
\* in that order
SortedScores(hyp) ==
    [n \in 1 .. Len(hyp) |->
        CHOOSE i \in 1 .. Len(hyp) :
            Cardinality({j \in 1 .. Len(hyp) : j # i /\ PairBefore(hyp, j, i)}) = n - 1]

\* del self.hyp[i]
DelAt(hyp, i) == SubSeq(hyp, 1, i - 1) \o SubSeq(hyp, i + 1, Len(hyp))

\* score = sum_logprobs / len(hyp) ** self.length_penalty
HypScore(h, hyp, sum_logprobs) == Rat(sum_logprobs, Pow(Len(hyp), h.length_penalty))

\* a plausible slip: a score equal to the worst one is accepted
AddAccepts_NonStrict(h, score) == Len(h.hyp) < h.n_hyp \/ RLeq(h.worst_score, score)

\* len(self) < self.n_hyp or score > self.worst_score
AddAccepts(h, score) == Len(h.hyp) < h.n_hyp \/ RLess(h.worst_score, score)

\* a plausible slip: the score of the entry that was removed is kept
WorstAfterEvict_Removed(hyp, sorted_scores) == hyp[sorted_scores[1]][1]

\* self.worst_score = sorted_scores[1][0]
WorstAfterEvict(hyp, sorted_scores) == hyp[sorted_scores[2]][1]

\* self.worst_score = min(score, self.worst_score)
WorstAfterAppend(score, worst_score) == IF RLess(worst_score, score) THEN worst_score ELSE score

\* a plausible slip: the entry sorted last, the best one, is removed
EvictIndex_Best(sorted_scores) == sorted_scores[Len(sorted_scores)]

\* del self.hyp[sorted_scores[0][1]]
EvictIndex(sorted_scores) == sorted_scores[1]

BeamHypotheses_add(h, hyp, sum_logprobs) ==
    LET score == HypScore(h, hyp, sum_logprobs)
        hyp1  == Append(h.hyp, <<score, hyp>>)
        sorted_scores == SortedScores(hyp1)
    IN  IF AddAccepts(h, score)
        THEN IF Len(hyp1) > h.n_hyp
             THEN [h EXCEPT !.hyp = DelAt(hyp1, EvictIndex(sorted_scores)),
                            !.worst_score = WorstAfterEvict(hyp1, sorted_scores)]
             ELSE [h EXCEPT !.hyp = hyp1,
                            !.worst_score = WorstAfterAppend(score, h.worst_score)]
        ELSE h

\* a plausible slip: early_stopping is not looked at
BeamHypotheses_is_done_NoEarlyStop(h, best_sum_logprobs) ==
    IF Len(h.hyp) < h.n_hyp THEN FALSE
    ELSE RLeq(Rat(best_sum_logprobs, Pow(h.max_len, h.length_penalty)), h.worst_score)

\* a plausible slip: the running score is not normalised
BestAchievable_Raw(h, best_sum_logprobs) == Rat(best_sum_logprobs, 1)

\* best_sum_logprobs / self.max_len ** self.length_penalty
BestAchievable(h, best_sum_logprobs) ==
    Rat(best_sum_logprobs, Pow(h.max_len, h.length_penalty))

BeamHypotheses_is_done(h, best_sum_logprobs) ==
    IF Len(h.hyp) < h.n_hyp THEN FALSE
    ELSE IF h.early_stopping THEN TRUE
    ELSE RLeq(BestAchievable(h, best_sum_logprobs), h.worst_score)

---------------------------------------------------------------------------
(* Frames of calls that are not in flight *)

NoPass == [err |-> "", tensor |-> << >>, mask |-> << >>, attn_mask |-> << >>,
           attn_dim |-> 3, src_mask |-> << >>, src_enc |-> NoKV, use_cache |-> FALSE,
           cache |-> NoCache]
NoFwd == [bs |-> 0]
NoGen == [bs |-> 0]
NoBeam == [bs |-> 0]

\* a pass in flight keeps the cache in the model, not in its frame
Park(p) == [p EXCEPT !.cache = NoCache]
Resume(p, c) == [p EXCEPT !.cache = c]

---------------------------------------------------------------------------
(* Decoder passes called one at a time, layer by layer.                    *)
(* The caller holds bs token rows of MaxLen tokens and passes their first  *)
(* n tokens, with or without use_cache; NewCall is the statement           *)
(* self.cache = {'slen': 0} that opens a generation call.                  *)

HarnessToks(bs, pat) ==
    [b \in 1 .. bs |-> [t \in 1 .. MaxLen |->
        IF t = 1 THEN eos_index ELSE (b + t + pat) % n_words]]

Arange(bs, n) == [b \in 1 .. bs |-> [t \in 1 .. n |-> t - 1]]
Sents(bs) == [b \in 1 .. bs |-> b]

HarnessArgs(n, uc) ==
    FwdArgs([b \in 1 .. fw.bs |-> PyHead(fw.x[b], n)],
            [b \in 1 .. fw.bs |-> n],
            TRUE,
            SomeKV(SrcEnc(Sents(fw.bs), fw.bs)),
            SrcLen(Sents(fw.bs)),
            SomePositions(Arange(fw.bs, n)),
            uc)

\* no attention module has been called directly
NoAttn == [called |-> FALSE, use_cache |-> FALSE, err |-> "", out |-> << >>]

InitFwd ==
    /\ cache = NoCache
    /\ pc = "idle"
    /\ \E bs \in 1 .. MaxBs, pat \in 0 .. 1 :
          fw = [bs |-> bs, x |-> HarnessToks(bs, pat), slen |-> 0, use_cache |-> FALSE,
                slen0 |-> 0, i |-> 0, p |-> NoPass, out |-> << >>, err |-> "",
                returned |-> FALSE, steps |-> 0, singles |-> 0, attn |-> NoAttn]
    /\ gen = NoGen
    /\ bm = NoBeam
    /\ generated_hyps = << >>
    /\ oracle = {}

\* self.cache = {'slen': 0}
NewCall ==
    /\ pc \in {"idle", "raised"}
    /\ cache' = FreshCache
    /\ pc' = "idle"
    /\ fw' = [fw EXCEPT !.p = NoPass, !.out = << >>, !.err = "", !.returned = FALSE,
                        !.steps = 0, !.singles = 0, !.slen = 0, !.slen0 = 0, !.i = 0,
                        !.use_cache = FALSE, !.attn = NoAttn]
    /\ UNCHANGED <<gen, bm, generated_hyps, oracle>>

\* attentions[i](tensor, attn_mask, use_cache=uc) called on its own, on the
\* embeddings of the first n tokens, before any call has created the cache
\* (the module's cache attribute is None, lines 153 and 411); the caller
\* catches the error of a call that fails
AttnCall ==
    /\ pc = "idle" /\ ~cache.alive
    /\ \E n \in 1 .. MaxLen, i \in 0 .. (n_layers - 1), uc \in BOOLEAN :
          LET p == FwdEnter(HarnessArgs(n, FALSE), cache)
              r == MultiHeadAttention_forward(SelfId(i), p.tensor, p.attn_mask,
                                              p.attn_dim, NoKV, uc, cache)
          IN  /\ fw' = [fw EXCEPT !.attn = [called |-> TRUE, use_cache |-> uc,
                                            err |-> r.err, out |-> r.out]]
              /\ cache' = r.cache
    /\ UNCHANGED <<pc, gen, bm, generated_hyps, oracle>>

FwdCall ==
    /\ pc = "idle"
    /\ \E n \in 1 .. MaxLen, uc \in BOOLEAN :
          LET p == FwdEnter(HarnessArgs(n, uc), cache)
          IN  /\ fw' = [fw EXCEPT !.slen = n, !.use_cache = uc, !.slen0 = cache.slen,
                                  !.i = 0, !.p = Park(p), !.out = << >>, !.err = p.err,
                                  !.returned = FALSE]
              /\ pc' = IF p.err # "" THEN "raised" ELSE "self"
              /\ cache' = p.cache
    /\ UNCHANGED <<gen, bm, generated_hyps, oracle>>

FwdSelf ==
    /\ pc = "self"
    /\ LET p == FwdSelfAttn(Resume(fw.p, cache), fw.i)
       IN  /\ fw' = [fw EXCEPT !.p = Park(p), !.err = p.err]
           /\ pc' = IF p.err # "" THEN "raised" ELSE "enc"
           /\ cache' = p.cache
    /\ UNCHANGED <<gen, bm, generated_hyps, oracle>>

FwdEnc ==
    /\ pc = "enc"
    /\ LET p == FwdEncFfn(Resume(fw.p, cache), fw.i)
       IN  /\ fw' = [fw EXCEPT !.p = Park(p), !.err = p.err,
                               !.i = IF p.err = "" THEN fw.i + 1 ELSE fw.i]
           /\ pc' = IF p.err # "" THEN "raised"
                    ELSE IF fw.i + 1 < n_layers THEN "self" ELSE "exit"
           /\ cache' = p.cache
    /\ UNCHANGED <<gen, bm, generated_hyps, oracle>>

FwdReturn ==
    /\ pc = "exit"
    /\ LET p == FwdExit(Resume(fw.p, cache))
       IN  /\ fw' = [fw EXCEPT !.p = NoPass, !.out = p.tensor, !.returned = TRUE,
                               !.steps = IF fw.use_cache THEN fw.steps + TimeLen(p.tensor)
                                         ELSE fw.steps,
                               !.singles = IF ~fw.use_cache THEN fw.singles
                                           ELSE IF fw.singles = fw.steps /\ TimeLen(p.tensor) = 1
                                           THEN fw.singles + 1 ELSE 0]
           /\ pc' = "idle"
           /\ cache' = p.cache
    /\ UNCHANGED <<gen, bm, generated_hyps, oracle>>

NextFwd == NewCall \/ AttnCall \/ FwdCall \/ FwdSelf \/ FwdEnc \/ FwdReturn

SpecFwd == InitFwd /\ [][NextFwd]_vars

---------------------------------------------------------------------------
(* Properties of the decoder pass *)

\* time length of the key / value tensor cached for self-attention layer i
SelfKeyTime(c, i) == IF SelfId(i) \in DOMAIN c.kv THEN TimeLen(c.kv[SelfId(i)][1]) ELSE 0
SelfValTime(c, i) == IF SelfId(i) \in DOMAIN c.kv THEN TimeLen(c.kv[SelfId(i)][2]) ELSE 0

\* the self attention of layer i has run in the pass in flight
LayerRan(i) == i < fw.i \/ (i = fw.i /\ pc = "enc")

\* C6: a cached pass returns, for its new time steps, the hidden states the
\* uncached pass over the whole prefix computes for them: after N single-step
\* cached passes the final step has the query position and the visible keys
\* and values, in the order, of the final step of one uncached pass of length N.
C6_CachedEqualsUncached ==
    (pc = "idle" /\ fw.returned /\ fw.use_cache /\ fw.slen > fw.slen0) =>
        LET ref == Fwd(HarnessArgs(fw.slen, FALSE), NoCache)
        IN  /\ ref.err = ""
            /\ fw.out = TailRows(ref.tensor, fw.slen - fw.slen0)

\* MaxLen single-step cached passes have been made and the last has returned
C6_Witness ==
    /\ pc = "idle" /\ fw.returned /\ fw.use_cache
    /\ fw.slen = MaxLen /\ fw.singles = MaxLen /\ fw.slen0 = MaxLen - 1

\* C9: between passes cache['slen'] is the time length of every self-attention
\* layer's cached keys and values and the number of time steps processed; while
\* the layers of a cached pass run it keeps its value at entry, the layers that
\* have run hold the new time steps and the others do not: it is incremented
\* once, after all layers.
C9_AccumulatedLength ==
    /\ (pc = "idle" /\ cache.alive) =>
          /\ cache.slen = fw.steps
          /\ \A i \in 0 .. (n_layers - 1) :
                SelfKeyTime(cache, i) = cache.slen /\ SelfValTime(cache, i) = cache.slen
    /\ (pc \in {"self", "enc", "exit"} /\ fw.use_cache) =>
          /\ cache.slen = fw.slen0
          /\ \A i \in 0 .. (n_layers - 1) :
                LET n == IF LayerRan(i) THEN fw.slen0 + TimeLen(fw.p.tensor) ELSE fw.slen0
                IN  SelfKeyTime(cache, i) = n /\ SelfValTime(cache, i) = n

\* a second cached pass has returned
C9_Witness ==
    /\ pc = "idle" /\ fw.returned /\ fw.use_cache
    /\ fw.slen0 > 0 /\ cache.slen = fw.slen /\ fw.slen > fw.slen0

\* C10: a cache-enabled pass whose input is at least as long as the accumulated
\* length returns as many time steps as are new (input length - accumulated length).
C10_OutputIsNewSteps ==
    (/\ pc \in {"idle", "raised"}
     /\ (fw.returned \/ fw.err # "")
     /\ cache.alive /\ fw.use_cache /\ fw.slen >= fw.slen0) =>
        (fw.returned /\ TimeLen(fw.out) = fw.slen - fw.slen0)

\* C12: a decoder pass or an attention call made with use_cache while no cache
\* has been created fails at its first statement: it raises, returns nothing,
\* runs no layer, and the model still holds no cache.
C12_NoCacheFails ==
    ~cache.alive =>
        /\ cache = NoCache
        /\ fw.use_cache =>
              /\ pc = "raised" /\ fw.err = "assert"
              /\ ~fw.returned /\ fw.out = << >> /\ fw.i = 0 /\ fw.p.tensor = << >>
        /\ fw.attn.use_cache => (fw.attn.err = "assert" /\ fw.attn.out = << >>)

\* an attention call, then a decoder pass, were made with use_cache before any
\* cache was created
C12_Witness ==
    /\ ~cache.alive /\ pc = "raised"
    /\ fw.use_cache /\ fw.err = "assert"
    /\ fw.attn.called /\ fw.attn.use_cache /\ fw.attn.err = "assert"

\* the keys and values k_lin, v_lin compute from the encoder output of the
\* bs sentences of the caller
SourceKV(bs) ==
    <<[b \in 1 .. bs |-> [j \in 1 .. bs |-> KeyOf(SrcTerm(b, j))]],
      [b \in 1 .. bs |-> [j \in 1 .. bs |-> ValOf(SrcTerm(b, j))]]>>

\* the output of encoder attention layer i for query q of sentence b, attending
\* the source positions of the sentence in the cache entry of the layer
AttendsEntry(i, b, q, entry) ==
    AttTerm(CrossId(i), q,
            [j \in 1 .. SrcLenOf(b) |-> CtxOf(entry[1][b][j], entry[2][b][j])])

\* C22: with use_cache, the keys and values of an encoder-attention layer are
\* those computed from the source by the first pass of a call that reaches the
\* layer; every later step, of a cached or an uncached pass, leaves the entry
\* of the layer as it is until a new call replaces the cache, so its time
\* length stays the source length; and a later cached pass attends the cached
\* keys and values themselves.
C22_CrossEntryComputedOnce ==
    /\ [](\A i \in 0 .. (n_layers - 1) :
             CrossId(i) \in DOMAIN cache.kv => cache.kv[CrossId(i)] = SourceKV(fw.bs))
    /\ [][\A i \in 0 .. (n_layers - 1) :
             CrossId(i) \in DOMAIN cache.kv =>
                \/ cache' = FreshCache
                \/ /\ CrossId(i) \in DOMAIN cache'.kv
                   /\ cache'.kv[CrossId(i)] = cache.kv[CrossId(i)]]_vars
    /\ [][(pc = "enc" /\ fw.use_cache) =>
             /\ pc' # "raised"
             /\ CrossId(fw.i) \in DOMAIN cache'.kv
             /\ CrossId(fw.i) \notin DOMAIN cache.kv =>
                   (fw.slen0 = 0 /\ cache'.kv[CrossId(fw.i)] = SourceKV(fw.bs))
             /\ CrossId(fw.i) \in DOMAIN cache.kv =>
                   \A b \in 1 .. fw.bs, t \in 1 .. TimeLen(fw.p.tensor) :
                      fw'.p.tensor[b][t] =
                         AttendsEntry(fw.i, b, fw.p.tensor[b][t], cache.kv[CrossId(fw.i)])]_vars

\* a second cached pass has returned: the self-attention keys of the last
\* layer have grown with it, its encoder-attention keys have not
C22_Witness ==
    /\ pc = "idle" /\ fw.returned /\ fw.use_cache /\ fw.slen0 > 0
    /\ SelfKeyTime(cache, n_layers - 1) = fw.slen /\ fw.slen > fw.slen0
    /\ CrossId(n_layers - 1) \in DOMAIN cache.kv
    /\ TimeLen(cache.kv[CrossId(n_layers - 1)][1]) = fw.bs

\* what the cache holds for layer id before the layer has stored anything:
\* keys and values of no time step
EntryOrEmpty(c, id) ==
    IF id \in DOMAIN c.kv THEN c.kv[id]
    ELSE <<[b \in 1 .. fw.bs |-> << >>], [b \in 1 .. fw.bs |-> << >>]>>

\* C23: a decoder pass changes the cache only by appending.  With use_cache,
\* the self attention of a layer stores, for every sentence, the keys and
\* values it had cached followed by those of the time steps the pass was
\* given, and touches nothing else; the encoder attention and feed-forward of
\* a layer touch no self-attention entry and no other layer; the accumulated
\* length is changed once, at the end, by the number of these time steps,
\* which for an input longer than the accumulated length is the number of new
\* time steps.  Without use_cache no step of the pass changes the cache, and
\* entering a pass never does.
C23_PassOnlyAppends ==
    /\ []((pc \in {"self", "enc", "exit"} /\ fw.use_cache /\ fw.slen > fw.slen0) =>
             TimeLen(fw.p.tensor) = fw.slen - fw.slen0)
    /\ [][(pc \in {"self", "enc", "exit"} /\ fw.use_cache) =>
             /\ pc = "self" =>
                   LET id  == SelfId(fw.i)
                       old == EntryOrEmpty(cache, id)
                       new == fw.p.tensor
                   IN  /\ DOMAIN cache'.kv = DOMAIN cache.kv \cup {id}
                       /\ cache'.kv[id][1] =
                             [b \in 1 .. fw.bs |->
                                 old[1][b] \o [t \in 1 .. Len(new[b]) |-> KeyOf(new[b][t])]]
                       /\ cache'.kv[id][2] =
                             [b \in 1 .. fw.bs |->
                                 old[2][b] \o [t \in 1 .. Len(new[b]) |-> ValOf(new[b][t])]]
                       /\ \A other \in DOMAIN cache.kv \ {id} :
                             cache'.kv[other] = cache.kv[other]
                       /\ cache'.slen = cache.slen
             /\ pc = "enc" =>
                   /\ DOMAIN cache'.kv = DOMAIN cache.kv \cup {CrossId(fw.i)}
                   /\ \A other \in DOMAIN cache.kv \ {CrossId(fw.i)} :
                         cache'.kv[other] = cache.kv[other]
                   /\ cache'.slen = cache.slen
             /\ pc = "exit" =>
                   /\ cache'.kv = cache.kv
                   /\ cache'.slen = cache.slen + TimeLen(fw.p.tensor)]_vars
    /\ [][(\/ pc \in {"self", "enc", "exit"} /\ ~fw.use_cache
           \/ pc = "idle" /\ pc' \in {"self", "raised"}) => cache' = cache]_vars

\* the first layer of a second cached pass has appended the new time steps to
\* its keys, the second layer has not run yet
C23_Witness ==
    /\ pc = "enc" /\ fw.use_cache /\ fw.i = 0 /\ fw.slen0 > 0 /\ fw.slen > fw.slen0
    /\ SelfKeyTime(cache, 0) = fw.slen
    /\ SelfKeyTime(cache, 1) = fw.slen0

---------------------------------------------------------------------------
(* get_masks called on its own, on a batch of 1 .. MaxBs sentences padded   *)
(* to slen positions, and the self attention of the first layer run with    *)
(* the masks it returns                                                     *)

\* the embeddings of a batch of bs rows of slen tokens, zeroed by the validity
\* mask
MaskedEmb(bs, slen, mask) ==
    [b \in 1 .. bs |-> [t \in 1 .. slen |->
        IF mask[b][t]
        THEN Emb(IF t = 1 THEN eos_index ELSE (b + t) % n_words, t - 1)
        ELSE Zero]]

MaskFrame(op, slen, lengths, causal, res, out) ==
    [bs |-> Len(lengths), op |-> op, slen |-> slen, lengths |-> lengths,
     causal |-> causal, res |-> res, out |-> out]

NoMasks == [err |-> FALSE, mask |-> << >>, attn_mask |-> << >>, dim |-> 2]

InitMask ==
    /\ cache = NoCache
    /\ pc = "mask"
    /\ gen = NoGen
    /\ bm = NoBeam
    /\ generated_hyps = << >>
    /\ oracle = {}
    /\ \E bs \in 1 .. MaxBs, slen \in 1 .. MaxLen, causal \in BOOLEAN :
       \E lengths \in [1 .. bs -> 0 .. MaxLen] :
          fw = MaskFrame("new", slen, lengths, causal, NoMasks, << >>)

\* mask, attn_mask = get_masks(slen, lengths, causal)
MaskCall ==
    /\ pc = "mask" /\ fw.op = "new"
    /\ fw' = [fw EXCEPT !.op = "masked",
                        !.res = get_masks(fw.slen, fw.lengths, fw.causal)]
    /\ UNCHANGED <<cache, pc, gen, bm, generated_hyps, oracle>>

\* attentions[0](tensor, attn_mask) on the masked embeddings
MaskAttend ==
    /\ pc = "mask" /\ fw.op = "masked" /\ ~fw.res.err
    /\ LET r == MultiHeadAttention_forward(
                    SelfId(0), MaskedEmb(fw.bs, fw.slen, fw.res.mask),
                    fw.res.attn_mask, fw.res.dim, NoKV, FALSE, cache)
       IN  fw' = [fw EXCEPT !.op = "attended", !.out = r.out]
    /\ UNCHANGED <<cache, pc, gen, bm, generated_hyps, oracle>>

NextMask == MaskCall \/ MaskAttend

SpecMask == InitMask /\ [][NextMask]_vars

\* position t (1-based) of sentence b is padding
IsPadding(b, t) == (t - 1) >= fw.lengths[b]

\* the vectors the output of the attention for query q of sentence b attends,
\* in order
Attended(b, q) == fw.out[b][q][4]

\* C24 as stated: in causal mode entry (b, q, k) of the attention mask is true
\* only if k <= q and k < length[b], so that no padded key position is attended.
C24_CausalMaskIsCombined ==
    (pc = "mask" /\ fw.op # "new" /\ ~fw.res.err /\ fw.causal) =>
        \A b \in 1 .. fw.bs, q \in 1 .. fw.slen, k \in 1 .. fw.slen :
           fw.res.attn_mask[b][q][k] => (k <= q /\ ~IsPadding(b, k))

\* C24, amended: get_masks fails exactly when a length exceeds slen; the
\* validity mask is true at (b, t) iff t < length[b]; in causal mode the
\* attention mask is the triangular mask alone, true at (b, q, k) iff k <= q
\* whatever length[b] is.  Hence a query at a valid position attends the keys
\* 0 .. q, all valid, and a query at a padded position attends the keys 0 .. q
\* too, the padded ones included.
C24_CausalMaskIsTriangular ==
    (pc = "mask" /\ fw.op # "new") =>
        /\ fw.res.err <=> (\E b \in 1 .. fw.bs : fw.lengths[b] > fw.slen)
        /\ \A b \in 1 .. fw.bs, t \in 1 .. fw.slen : fw.res.mask[b][t] <=> ~IsPadding(b, t)
        /\ fw.causal =>
              /\ \A b \in 1 .. fw.bs, q \in 1 .. fw.slen, k \in 1 .. fw.slen :
                    /\ fw.res.attn_mask[b][q][k] <=> (k <= q)
                    /\ (fw.res.attn_mask[b][q][k] /\ ~IsPadding(b, q)) => ~IsPadding(b, k)
              /\ fw.op = "attended" =>
                    \A b \in 1 .. fw.bs, q \in 1 .. fw.slen :
                       /\ Len(Attended(b, q)) = q
                       /\ \A k \in 1 .. q :
                             Attended(b, q)[k] = (IF IsPadding(b, k) THEN Zero
                                                  ELSE MaskedEmb(fw.bs, fw.slen, fw.res.mask)[b][k])

\* two sentences of lengths 1 and 3 in a batch of 3 positions: the query at the
\* last position of the first sentence, a padded one, attends its padded keys
C24_Witness ==
    /\ pc = "mask" /\ fw.op = "attended" /\ fw.causal
    /\ fw.slen = 3 /\ fw.lengths = <<1, 3>>
    /\ fw.res.attn_mask[1][3][3] /\ IsPadding(1, 3)
    /\ Attended(1, 3) = <<Emb(eos_index, 0), Zero, Zero>>

---------------------------------------------------------------------------
(* One hypothesis pool, given hypotheses one at a time *)

\* largest |sum_logprobs| handed to a pool
MaxSum == 2

\* a hypothesis of n tokens
HypOfLen(n) == [t \in 1 .. n |-> IF t = 1 THEN eos_index ELSE 0]

\* largest number of hypotheses handed to one pool
MaxAdds == 4

\* what the caller did last: nothing yet, add(hyp, sum) or is_done(best); and
\* the normalised scores of all the hypotheses it has handed to the pool, best
\* first
PoolFrame(op, outcome, prev, hyp, sum, res, offered) ==
    [bs |-> 0, op |-> op, outcome |-> outcome, prev |-> prev, hyp |-> hyp,
     sum |-> sum, res |-> res, offered |-> offered]

\* the sequence offered, in non-increasing order, with score x put in its place
Offer(offered, x) ==
    LET above == Cardinality({i \in 1 .. Len(offered) : ~RLess(offered[i], x)})
    IN  SubSeq(offered, 1, above) \o <<x>> \o SubSeq(offered, above + 1, Len(offered))

InitPool ==
    /\ cache = NoCache
    /\ pc = "pool"
    /\ gen = NoGen
    /\ bm = NoBeam
    /\ \E n_hyp \in 1 .. MaxBeam, length_penalty \in LengthPenalties,
          early_stopping \in BOOLEAN :
          /\ generated_hyps =
                 <<BeamHypotheses_init(n_hyp, MaxLen, length_penalty, early_stopping)>>
          /\ fw = PoolFrame("new", "new", generated_hyps[1], << >>, 0, FALSE, << >>)
    /\ oracle = {}

\* the lengths of the hypotheses handed to the pool: the shortest and the
\* longest that generated[:cur_len] can be
PoolLens == {1, MaxLen - 1}

\* generated_hyps[0].add(hyp, sum_logprobs)
PoolAdd ==
    /\ pc = "pool" /\ Len(fw.offered) < MaxAdds
    /\ \E n \in PoolLens, sum \in 0 .. MaxSum :
          LET h  == generated_hyps[1]
              h1 == BeamHypotheses_add(h, HypOfLen(n), -sum)
          IN  /\ generated_hyps' = <<h1>>
              /\ fw' = PoolFrame("add",
                                 IF h1 = h THEN "rejected"
                                 ELSE IF Len(h.hyp) = h.n_hyp THEN "evicted" ELSE "appended",
                                 h, HypOfLen(n), -sum, FALSE,
                                 Offer(fw.offered,
                                       Rat(-sum, Pow(n, h.length_penalty))))
    /\ UNCHANGED <<cache, pc, gen, bm, oracle>>

\* generated_hyps[0].is_done(best_sum_logprobs)
PoolIsDone ==
    /\ pc = "pool"
    /\ \E best \in 0 .. MaxSum :
          fw' = PoolFrame("is_done", "asked", generated_hyps[1], << >>, -best,
                          BeamHypotheses_is_done(generated_hyps[1], -best), fw.offered)
    /\ UNCHANGED <<cache, pc, gen, bm, generated_hyps, oracle>>

NextPool == PoolAdd \/ PoolIsDone

SpecPool == InitPool /\ [][NextPool]_vars

\* the smallest normalised score a pool retains
MinScore(h) ==
    h.hyp[CHOOSE i \in 1 .. Len(h.hyp) :
              \A j \in 1 .. Len(h.hyp) : RLeq(h.hyp[i][1], h.hyp[j][1])][1]

\* C3: a pool never holds more than beam_width (n_hyp) hypotheses, and while it
\* holds any, worst_score is the smallest normalised score it retains.
C3_PoolBoundedWorstIsMin ==
    \A s \in 1 .. Len(generated_hyps) :
        LET h == generated_hyps[s]
        IN  /\ Len(h.hyp) <= h.n_hyp
            /\ Len(h.hyp) > 0 => h.worst_score = MinScore(h)

\* a full pool of two has just evicted its worst entry for a better one
C3_Witness ==
    /\ pc = "pool" /\ fw.outcome = "evicted"
    /\ Len(generated_hyps[1].hyp) = 2
    /\ generated_hyps[1].hyp[1][1] # generated_hyps[1].hyp[2][1]

C17_IsDone ==
    (pc = "pool" /\ fw.op = "is_done") =>
        LET h == generated_hyps[1]
            P == Pow(h.max_len, h.length_penalty)
        IN  /\ h = fw.prev
            /\ Len(h.hyp) < h.n_hyp => ~fw.res
            /\ (Len(h.hyp) >= h.n_hyp /\ h.early_stopping) => fw.res
            /\ (Len(h.hyp) >= h.n_hyp /\ ~h.early_stopping) =>
                  /\ fw.res <=> (fw.sum * h.worst_score[2] <= h.worst_score[1] * P)
                  /\ fw.res =>
                        \A L \in 1 .. h.max_len, s \in (fw.sum - MaxSum) .. fw.sum :
                           ~(s * h.worst_score[2]
                                > h.worst_score[1] * Pow(L, h.length_penalty))

\* a full pool of two without early stopping, a length penalty and a negative
\* best running score: the pool reports done
C17_Witness ==
    /\ pc = "pool" /\ fw.op = "is_done" /\ fw.res
    /\ ~generated_hyps[1].early_stopping /\ generated_hyps[1].length_penalty = 1
    /\ Len(generated_hyps[1].hyp) = 2 /\ fw.sum = -2
    /\ generated_hyps[1].worst_score[1] < 0

\* C28: after any sequence of calls of add, the scores the pool retains are,
\* counted with their multiplicities, the n_hyp largest of the scores of all
\* the hypotheses it was handed (all of them while fewer than n_hyp were
\* handed).
C28_PoolKeepsTheBest ==
    pc = "pool" =>
        LET h    == generated_hyps[1]
            best == PyHead(fw.offered, h.n_hyp)
            TimesRetained(x) == Cardinality({i \in 1 .. Len(h.hyp) : h.hyp[i][1] = x})
            TimesIn(x) == Cardinality({i \in 1 .. Len(best) : best[i] = x})
        IN  /\ Len(h.hyp) = Len(best)
            /\ \A x \in Range(best) \cup {h.hyp[i][1] : i \in 1 .. Len(h.hyp)} :
                  TimesRetained(x) = TimesIn(x)

\* a pool of two was handed four hypotheses, the last better than both it
\* held: it evicted one, and two of the four scores handed are lost
C28_Witness ==
    /\ pc = "pool" /\ fw.op = "add" /\ fw.outcome = "evicted"
    /\ Len(fw.offered) = MaxAdds /\ generated_hyps[1].n_hyp = 2
    /\ HypScore(fw.prev, fw.hyp, fw.sum) = fw.offered[1]
    /\ RLess(fw.offered[2], fw.offered[1])
    /\ RLess(fw.offered[3], fw.offered[2])

---------------------------------------------------------------------------
(* The scores of the prediction layer.  pred_layer maps a hidden state to a *)
(* row of word scores; the model keeps the rows it has produced in oracle,  *)
(* so that equal hidden states get equal rows.  Row r gives word r the best *)
(* log-probability, -1, and the others -2, -3, ... in cyclic order.         *)

LogProb(r, w) == -(1 + ((w - r + n_words) % n_words))

\* the rows pred_layer may produce for hidden state h
RowsFor(h) ==
    IF \E e \in oracle : e[1] = h THEN {e[2] : e \in {d \in oracle : d[1] = h}} ELSE Words

\* hidden states of one pass -> rows, one per batch row of tensor (bs, 1, dim)
RowChoices(tensor) ==
    {rs \in [1 .. Len(tensor) -> Words] :
        /\ \A n \in 1 .. Len(tensor) : rs[n] \in RowsFor(tensor[n][1])
        /\ \A n, m \in 1 .. Len(tensor) : tensor[n][1] = tensor[m][1] => rs[n] = rs[m]}

Remember(tensor, rs) == oracle \cup {<<tensor[n][1], rs[n]>> : n \in 1 .. Len(tensor)}

---------------------------------------------------------------------------
(* generate.  Tensors the source holds as (time, batch) are kept here as    *)
(* one row per batch entry: generated[b][t + 1] is generated[t, b].         *)

\* the batch entries (1-based) a boolean mask selects, in order
Selected(mask) == SelectSeq([b \in 1 .. Len(mask) |-> b], LAMBDA b : mask[b])

\* the rank of entry b among the entries mask selects
RankIn(mask, b) == Cardinality({a \in 1 .. b : mask[a]})

\* a plausible slip: the rows of the sentences that finished are kept
RestrictedMask_Finished(unfinished_mask, previous_unfinished_mask) ==
    [n \in 1 .. Len(MaskRows(unfinished_mask, previous_unfinished_mask)) |->
        ~MaskRows(unfinished_mask, previous_unfinished_mask)[n]]

\* restricted_mask = unfinished_mask[previous_unfinished_mask]
RestrictedMask(unfinished_mask, previous_unfinished_mask) ==
    MaskRows(unfinished_mask, previous_unfinished_mask)

\* self.cache[k] = (cached_tensor[restricted_mask] for cached_tensor in v), for
\* every layer id k; the generators are consumed by the pass that follows
FilterCache(c, restricted_mask) ==
    [c EXCEPT !.kv = [id \in DOMAIN c.kv |->
                         <<MaskRows(c.kv[id][1], restricted_mask),
                           MaskRows(c.kv[id][2], restricted_mask)>>]]

\* lines 481-514, from the arguments to the first test of the loop
GenerateEnter(bs, max_lengths, sample) ==
    LET global_max_len == SeqMax(max_lengths)
    IN  [bs |-> bs, max_lengths |-> max_lengths, global_max_len |-> global_max_len,
         sample |-> sample,
         generated |-> [b \in 1 .. bs |-> [t \in 1 .. global_max_len |->
                           IF t = 1 THEN eos_index ELSE pad_index]],
         cur_len |-> 1,
         gen_len |-> [b \in 1 .. bs |-> 1],
         unfinished_sents |-> [b \in 1 .. bs |-> 1],
         previous_unfinished_mask |-> [b \in 1 .. bs |-> TRUE],
         tensor |-> << >>, steps |-> 0, err |-> "", returned |-> FALSE,
         out |-> << >>, out_len |-> << >>]

UnfinishedMask(g) == [b \in 1 .. g.bs |-> g.unfinished_sents[b] # 0]

\* a plausible slip: the cache is never filtered
ShouldModify_Never(unfinished_mask, previous_unfinished_mask) == FALSE

\* should_modify = unfinished_mask.ne(previous_unfinished_mask).any()
ShouldModify(unfinished_mask, previous_unfinished_mask) ==
    unfinished_mask # previous_unfinished_mask

\* the cache the pass of this iteration is given
GenerateCache(g, c) ==
    LET unfinished_mask == UnfinishedMask(g)
        should_modify   == ShouldModify(unfinished_mask, g.previous_unfinished_mask)
    IN  IF should_modify /\ c.alive
        THEN FilterCache(c, RestrictedMask(unfinished_mask, g.previous_unfinished_mask))
        ELSE c

\* the arguments of the pass of this iteration
GenerateArgs(g) ==
    LET act == Selected(UnfinishedMask(g))
    IN  FwdArgs([n \in 1 .. Len(act) |-> PyHead(g.generated[act[n]], g.cur_len)],
                [n \in 1 .. Len(act) |-> g.gen_len[act[n]]],
                TRUE,
                SomeKV(SrcEnc(act, g.bs)),
                SrcLen(act),
                SomePositions(Arange(Len(act), g.cur_len)),
                TRUE)

\* a plausible slip: the maximum length is compared with cur_len
ForcedEos_OffByOne(g, b) == g.max_lengths[b] = g.cur_len /\ g.unfinished_sents[b] = 1

\* the word a sentence must end with at this length
ForcedEos(g, b) == g.max_lengths[b] = g.cur_len + 1 /\ g.unfinished_sents[b] = 1

\* a plausible slip: a sentence is not marked finished when it emits <eos>
StillUnfinished_IgnoreEos(g, b, w) ==
    g.unfinished_sents[b] * (IF g.max_lengths[b] # g.cur_len + 1 THEN 1 ELSE 0)

\* unfinished_sents[b] * (next_word != eos_index) * (max_lengths[b] != cur_len + 1)
StillUnfinished(g, b, w) ==
    g.unfinished_sents[b]
        * (IF w # eos_index THEN 1 ELSE 0)
        * (IF g.max_lengths[b] # g.cur_len + 1 THEN 1 ELSE 0)

\* lines 555-565: the update of one iteration, given the pass's output and the
\* words selected for the unfinished sentences
GenerateUpdate(g, tensor, next_words) ==
    LET unfinished_mask == UnfinishedMask(g)
        word(b) == next_words[RankIn(unfinished_mask, b)]
    IN  [g EXCEPT
           !.generated = [b \in 1 .. g.bs |-> [t \in 1 .. g.global_max_len |->
               IF t = g.cur_len + 1 /\ ForcedEos(g, b) THEN eos_index
               ELSE IF t = g.cur_len + 1 /\ unfinished_mask[b] THEN word(b)
               ELSE g.generated[b][t]]],
           !.gen_len = [b \in 1 .. g.bs |-> g.gen_len[b] + g.unfinished_sents[b]],
           !.unfinished_sents = [b \in 1 .. g.bs |->
               IF unfinished_mask[b] THEN StillUnfinished(g, b, word(b))
               ELSE g.unfinished_sents[b]],
           !.cur_len = g.cur_len + 1,
           !.previous_unfinished_mask = unfinished_mask,
           !.tensor = tensor,
           !.steps = g.steps + 1]

\* unfinished_sents.max() == 0
AllFinished(g) == SeqMax(g.unfinished_sents) = 0

\* a plausible slip: the loop does not stop when every sentence is finished
GenerateContinues_NoBreak(g) == g.cur_len < g.global_max_len

\* the loop goes on: cur_len < global_max_len and no break
GenerateContinues(g) ==
    /\ g.cur_len < g.global_max_len
    /\ (g.steps = 0 \/ ~AllFinished(g))

\* the sanity check of line 571
EosCount(g) ==
    Cardinality({bt \in (1 .. g.bs) \X (1 .. g.global_max_len) :
                    g.generated[bt[1]][bt[2]] = eos_index})

\* lines 543-551: torch.topk(scores, 1) takes the word the row puts first;
\* torch.multinomial draws any word from the softmax of the row
NextWords(tensor, sample) ==
    IF sample THEN [1 .. Len(tensor) -> Words] ELSE RowChoices(tensor)

\* generate(src_enc, src_len, tgt_lang_id, max_len, sample_temperature) is entered
GenCall(bs, max_lengths, sample) ==
    /\ pc = "idle"
    /\ cache' = FreshCache
    /\ gen' = GenerateEnter(bs, max_lengths, sample)
    /\ pc' = IF GenerateContinues(gen') THEN "gen" ELSE "gen_exit"
    /\ UNCHANGED <<fw, bm, generated_hyps, oracle>>

\* one iteration of the loop of generate
GenStep ==
    /\ pc = "gen"
    /\ \E r \in {Fwd(GenerateArgs(gen), GenerateCache(gen, cache))},
          n \in {Len(Selected(UnfinishedMask(gen)))} :
           IF r.err # "" \/ Len(r.tensor) # n \/ TimeLen(r.tensor) # 1
           THEN /\ gen' = [gen EXCEPT !.err = IF r.err # "" THEN r.err ELSE "size"]
                /\ pc' = "raised"
                /\ cache' = r.cache
                /\ UNCHANGED oracle
           ELSE \E next_words \in NextWords(r.tensor, gen.sample) :
                   /\ gen' = GenerateUpdate(gen, r.tensor, next_words)
                   /\ oracle' = IF gen.sample THEN oracle
                                 ELSE Remember(r.tensor, next_words)
                   /\ cache' = r.cache
                   /\ pc' = IF GenerateContinues(gen') THEN "gen" ELSE "gen_exit"
    /\ UNCHANGED <<fw, bm, generated_hyps>>

\* the sanity check and the return
GenReturn ==
    /\ pc = "gen_exit"
    /\ IF EosCount(gen) = 2 * gen.bs
       THEN /\ gen' = [gen EXCEPT !.returned = TRUE,
                          !.out = [b \in 1 .. gen.bs |-> PyHead(gen.generated[b], gen.cur_len)],
                          !.out_len = gen.gen_len]
            /\ pc' = "idle"
       ELSE /\ gen' = [gen EXCEPT !.err = "sanity"]
            /\ pc' = "raised"
    /\ UNCHANGED <<cache, fw, bm, generated_hyps, oracle>>

---------------------------------------------------------------------------
(* One call of generate on a batch of 1 .. MaxBs sentences, each with its   *)
(* own maximum length in 1 .. MaxLen                                        *)

InitGreedy ==
    /\ cache = NoCache
    /\ pc = "idle"
    /\ fw = NoFwd
    /\ gen = NoGen
    /\ bm = NoBeam
    /\ generated_hyps = << >>
    /\ oracle = {}

GreedyCall ==
    /\ gen.bs = 0
    /\ \E bs \in 1 .. MaxBs, sample \in BOOLEAN :
       \E max_lengths \in [1 .. bs -> 1 .. MaxLen] :
          /\ bs * SeqMax(max_lengths) <= MaxTokens
          /\ GenCall(bs, max_lengths, sample)

NextGreedy == GreedyCall \/ GenStep \/ GenReturn

SpecGreedy == InitGreedy /\ [][NextGreedy]_vars

---------------------------------------------------------------------------
(* Properties of generate *)

\* the number of end-of-sequence markers in a token row
EosIn(row) == Cardinality({t \in 1 .. Len(row) : row[t] = eos_index})

\* C1: a call of generate whose maximum lengths are all at least 2 returns (it
\* fails neither in a step nor at the sanity check), and every sequence a call
\* returns holds exactly two end-of-sequence markers, the start at position 0
\* and the end at position gen_len - 1, with only padding after the end.
C1_TwoEosThenPadding ==
    /\ (pc = "raised" /\ gen.bs > 0) => \E b \in 1 .. gen.bs : gen.max_lengths[b] < 2
    /\ (pc = "idle" /\ gen.bs > 0 /\ gen.returned) =>
          \A b \in 1 .. gen.bs :
             /\ EosIn(gen.out[b]) = 2
             /\ gen.out[b][1] = eos_index
             /\ gen.out_len[b] \in 2 .. Len(gen.out[b])
             /\ gen.out[b][gen.out_len[b]] = eos_index
             /\ \A t \in (gen.out_len[b] + 1) .. Len(gen.out[b]) : gen.out[b][t] = pad_index

\* two sentences returned: one cut at its own maximum length, shorter than the
\* other, which the model ended; the shorter is followed by padding
C1_Witness ==
    /\ pc = "idle" /\ gen.bs = 2 /\ gen.returned
    /\ gen.max_lengths = <<2, 3>>
    /\ gen.out_len = <<2, 3>>
    /\ gen.out[1][3] = pad_index

\* the pass over the sentences that were active in the last iteration, alone
\* in their batch from the start of the call
ActiveAlone ==
    LET act == Selected(gen.previous_unfinished_mask)
        n   == gen.cur_len - 1
    IN  Fwd(FwdArgs([i \in 1 .. Len(act) |-> PyHead(gen.generated[act[i]], n)],
                    [i \in 1 .. Len(act) |-> n],
                    TRUE,
                    SomeKV(SrcEnc(act, gen.bs)),
                    SrcLen(act),
                    SomePositions(Arange(Len(act), n)),
                    TRUE),
            FreshCache)

\* C5: after every iteration of generate the cache holds, row i of every key
\* and value of every layer, the state of the i-th sentence that was active in
\* the iteration, and the hidden states the words were chosen from are those
\* of the same sentences decoded without the finished ones in the batch; no
\* iteration fails.
C5_CacheFollowsActiveSet ==
    /\ (gen.bs > 0) => gen.err \in {"", "sanity"}
    /\ (gen.bs > 0 /\ gen.steps > 0 /\ pc \in {"gen", "gen_exit"}) =>
          LET alone == ActiveAlone
          IN  /\ alone.err = ""
              /\ cache.kv = alone.cache.kv
              /\ cache.slen = alone.cache.slen
              /\ gen.tensor = TailRows(alone.tensor, 1)

\* the first sentence of two finished in the first iteration and the second
\* iteration has run on the other alone
C5_Witness ==
    /\ pc \in {"gen", "gen_exit"} /\ gen.bs = 2 /\ gen.steps = 2
    /\ gen.previous_unfinished_mask = <<FALSE, TRUE>>

\* one sentence, maximum length 3, arg-max selection, and every row of scores
\* the model has produced puts the end-of-sequence marker first
AlwaysEosScenario ==
    /\ gen.bs = 1 /\ gen.max_lengths = <<3>> /\ ~gen.sample
    /\ \A e \in oracle : e[2] = eos_index

\* C8: in that scenario generate stops at the second time step: after its
\* first iteration the loop is left with cur_len = 2, short of the maximum
\* length 3, and the call returns the sequence [start, end] of length 2.
C8_AlwaysEosStopsAtTwo ==
    AlwaysEosScenario =>
        /\ pc # "raised"
        /\ gen.steps <= 1
        /\ gen.steps = 1 =>
              /\ pc \in {"gen_exit", "idle"}
              /\ gen.cur_len = 2
              /\ gen.gen_len = <<2>>
        /\ (pc = "idle" /\ gen.steps = 1) =>
              /\ gen.returned
              /\ gen.out = << <<eos_index, eos_index>> >>
              /\ gen.out_len = <<2>>

C8_Witness ==
    /\ AlwaysEosScenario /\ pc = "idle" /\ gen.returned
    /\ gen.out = << <<eos_index, eos_index>> >>

\* C13: generate terminates.  cur_len starts at 1 and every iteration of the
\* loop adds one to it or raises, so the loop runs at most global_max_len - 1
\* iterations; it goes on only while cur_len < global_max_len and some sentence
\* is unfinished, and it is left exactly when every sentence is finished or
\* cur_len = global_max_len; after the loop the call returns or raises.
C13_GreedyTerminates ==
    /\ [](gen.bs > 0 =>
            /\ gen.cur_len = gen.steps + 1
            /\ gen.steps <= gen.global_max_len - 1
            /\ pc = "gen" => (gen.cur_len < gen.global_max_len /\ ~AllFinished(gen))
            /\ pc \in {"gen_exit", "idle"} =>
                  (AllFinished(gen) \/ gen.cur_len = gen.global_max_len)
            /\ pc = "raised" => gen.err = "sanity")
    /\ [][/\ pc = "gen" =>
               (pc' = "raised" \/ (gen'.cur_len = gen.cur_len + 1 /\ pc' \in {"gen", "gen_exit"}))
          /\ pc = "gen_exit" => pc' \in {"idle", "raised"}]_vars

\* the loop was left after two iterations with every sentence finished and
\* cur_len short of the maximum length
C13_Witness ==
    /\ pc = "gen_exit" /\ gen.steps = 2
    /\ AllFinished(gen) /\ gen.cur_len < gen.global_max_len

\* the keys the encoder attention computes from the source of sentence s of a
\* batch of bs sentences
SourceKeys(s, bs) == [j \in 1 .. bs |-> KeyOf(SrcTerm(s, j))]

\* C25: in generate a sentence that has finished never becomes active again:
\* the active set of every iteration is a subset of that of the iteration
\* before, so two consecutive active sets of the same size are the same set;
\* and the rows the filter keeps stay aligned: after every iteration every
\* cached tensor has one row per sentence that was active in it, and row n of
\* the encoder-attention keys is that of the source of the n-th such sentence;
\* no iteration fails.
C25_ActiveSetOnlyShrinks ==
    /\ [](gen.bs > 0 =>
            /\ gen.err \in {"", "sanity"}
            /\ \A b \in 1 .. gen.bs :
                  UnfinishedMask(gen)[b] => gen.previous_unfinished_mask[b]
            /\ (gen.steps > 0 /\ pc \in {"gen", "gen_exit"}) =>
                  LET act == Selected(gen.previous_unfinished_mask)
                  IN  \A id \in DOMAIN cache.kv :
                         /\ Len(cache.kv[id][1]) = Len(act)
                         /\ Len(cache.kv[id][2]) = Len(act)
                         /\ id \in CrossIds =>
                               \A n \in 1 .. Len(act) :
                                  cache.kv[id][1][n] = SourceKeys(act[n], gen.bs))
    /\ [][gen.bs > 0 =>
             /\ \A b \in 1 .. gen.bs : UnfinishedMask(gen')[b] => UnfinishedMask(gen)[b]
             /\ Len(Selected(UnfinishedMask(gen'))) = Len(Selected(UnfinishedMask(gen)))
                   => UnfinishedMask(gen') = UnfinishedMask(gen)]_vars

\* the first of two sentences finished in the first iteration; the second
\* iteration ran on the second sentence alone, whose cache row had moved from
\* row 2 to row 1, and finished it
C25_Witness ==
    /\ pc = "gen_exit" /\ gen.bs = 2 /\ gen.steps = 2 /\ AllFinished(gen)
    /\ gen.previous_unfinished_mask = <<FALSE, TRUE>>
    /\ cache.kv[CrossId(0)][1] = <<SourceKeys(2, 2)>>

---------------------------------------------------------------------------
(* generate_beam.  Column j (1-based) of the (time, bs * beam_size) tensors *)
(* of the source is row j here; column indices stored in the beam tuples    *)
(* are kept 0-based as in the source.                                       *)

\* float32 addition of a log-probability to a beam score: a beam at -1e9
\* absorbs it (the spacing of float32 at 1e9 is 64)
FloatAdd(beam_score, logp) == IF beam_score <= NegInit THEN NegInit ELSE beam_score + logp

\* the columns (1-based) of sentence sent_id (0-based)
ColOf(sent_id, beam_id, beam_size) == sent_id * beam_size + beam_id + 1

\* the sentence (1-based) whose beams include column col (1-based)
SentOfCol(col, beam_size) == ((col - 1) \div beam_size) + 1

\* what the loop body did for the sentence it visited last (line 698): the
\* sentence, done[sent_id] before and after line 701, _scores[sent_id] and
\* next_words[sent_id], the pools before the visit and the length of
\* next_sent_beam at line 735
NoWalk == [valid |-> FALSE, sent_id |-> 0, was_done |-> FALSE, done |-> FALSE,
           scores |-> << >>, next_words |-> << >>, pools |-> << >>, collected |-> 0]

\* a plausible slip: every beam starts with the score 0
InitialBeamScore_AllZero(beam_id) == 0

\* beam_scores.fill_(0); beam_scores[:, 1:] = -1e9
InitialBeamScore(beam_id) == IF beam_id = 0 THEN 0 ELSE NegInit

\* lines 596-651, from the arguments to the first test of the loop
BeamEnter(bs, beam_size, length_penalty, early_stopping, max_len) ==
    [bs |-> bs, beam_size |-> beam_size, length_penalty |-> length_penalty,
     early_stopping |-> early_stopping, global_max_len |-> max_len,
     generated |-> [j \in 1 .. bs * beam_size |-> [t \in 1 .. max_len |->
                       IF t = 1 THEN eos_index ELSE pad_index]],
     beam_scores |-> [j \in 1 .. bs * beam_size |->
                       InitialBeamScore((j - 1) % beam_size)],
     cur_len |-> 1,
     done |-> [s \in 1 .. bs |-> FALSE],
     tensor |-> << >>, sent_id |-> 0, next_batch_beam |-> << >>, beam_idx |-> << >>,
     walk |-> NoWalk,
     steps |-> 0, err |-> "", returned |-> FALSE, decoded |-> << >>, tgt_len |-> << >>]

\* generated_hyps = [BeamHypotheses(beam_size, global_max_len, ...) for _ in range(bs)]
BeamPools(bs, beam_size, length_penalty, early_stopping, max_len) ==
    [s \in 1 .. bs |-> BeamHypotheses_init(beam_size, max_len, length_penalty, early_stopping)]

\* the arguments of the pass of this iteration
BeamArgs(b) ==
    LET n == b.bs * b.beam_size
        sents == [j \in 1 .. n |-> SentOfCol(j, b.beam_size)]
    IN  FwdArgs([j \in 1 .. n |-> PyHead(b.generated[j], b.cur_len)],
                [j \in 1 .. n |-> b.cur_len],
                TRUE,
                SomeKV(SrcEnc(sents, b.bs)),
                SrcLen(sents),
                SomePositions(Arange(n, b.cur_len)),
                TRUE)

\* _scores[sent_id]: candidate idx (0-based, beam_id * n_words + word_id) -> score,
\* rs the score rows of the beams of the sentence
SentScores(b, sent_id, rs) ==
    [idx \in 0 .. (b.beam_size * n_words - 1) |->
        FloatAdd(b.beam_scores[ColOf(sent_id, idx \div n_words, b.beam_size)],
                 LogProb(rs[(idx \div n_words) + 1], idx % n_words))]

\* torch.topk(_scores, k, largest=True, sorted=True) on one row: the sequences
\* of k candidates in non-increasing score order; equal scores come in any order
RECURSIVE TopK(_, _, _)
TopK(scores, cands, k) ==
    IF k = 0 \/ cands = {} THEN {<< >>}
    ELSE LET best == {c \in cands : \A d \in cands : scores[d] <= scores[c]}
         IN  UNION {{<<c>> \o rest : rest \in TopK(scores, cands \ {c}, k - 1)} : c \in best}

\* a plausible slip: as many candidates as beams
NumCandidates_NoOversample(beam_size) == beam_size

\* the k of line 690
NumCandidates(beam_size) == 2 * beam_size

\* a plausible slip: every candidate is taken as a finished hypothesis
CandidateEnds_Any(b, word_id) == TRUE

\* word_id == self.eos_index or cur_len + 1 == global_max_len
CandidateEnds(b, word_id) == word_id = eos_index \/ b.cur_len + 1 = b.global_max_len

\* a plausible slip: done[sent_id] of the earlier steps is not looked at
AlreadyDone_Forgotten(b, sent_id) == FALSE

\* done[sent_id], as the earlier steps left it
AlreadyDone(b, sent_id) == b.done[sent_id + 1]

\* a plausible slip: the offset of the sentence is left out
SourceBeam_NoOffset(sent_id, beam_id, beam_size) == beam_id

\* sent_id * beam_size + beam_id, the third component of a next_sent_beam tuple
SourceBeam(sent_id, beam_id, beam_size) == sent_id * beam_size + beam_id

\* [(0, self.pad_index, 0)] * beam_size
PadBeam(beam_size) == [n \in 1 .. beam_size |-> <<0, pad_index, 0>>]

\* lines 714-732: the walk over the candidates from position n of next_words on;
\* w is [pool, next_sent_beam]
RECURSIVE WalkCandidates(_, _, _, _, _, _)
WalkCandidates(b, sent_id, scores, next_words, n, w) ==
    IF n > Len(next_words) THEN w
    ELSE LET idx     == next_words[n]
             value   == scores[idx]
             beam_id == idx \div n_words
             word_id == idx % n_words
             col     == ColOf(sent_id, beam_id, b.beam_size)
             w1 == IF CandidateEnds(b, word_id)
                   THEN [w EXCEPT !.pool = BeamHypotheses_add(
                                     w.pool, PyHead(b.generated[col], b.cur_len), value)]
                   ELSE [w EXCEPT !.next_sent_beam =
                                     Append(w.next_sent_beam,
                                            <<value, word_id,
                                              SourceBeam(sent_id, beam_id, b.beam_size)>>)]
         IN  IF Len(w1.next_sent_beam) = b.beam_size THEN w1
             ELSE WalkCandidates(b, sent_id, scores, next_words, n + 1, w1)

\* lines 698-741 for one sentence: [done, pool, beam], beam the tuples the
\* sentence adds to next_batch_beam
BeamSentence(b, pool, sent_id, scores, next_words) ==
    LET is_done == AlreadyDone(b, sent_id)
                       \/ BeamHypotheses_is_done(pool, scores[next_words[1]])
        w == WalkCandidates(b, sent_id, scores, next_words, 1,
                            [pool |-> pool, next_sent_beam |-> << >>])
    IN  IF is_done
        THEN [done |-> TRUE, pool |-> pool, beam |-> PadBeam(b.beam_size), collected |-> 0]
        ELSE [done |-> FALSE, pool |-> w.pool,
              beam |-> IF Len(w.next_sent_beam) = 0 THEN PadBeam(b.beam_size)
                       ELSE w.next_sent_beam,
              collected |-> Len(w.next_sent_beam)]

\* a plausible slip: only the keys are reindexed
ReindexCache_KeysOnly(c, beam_idx) ==
    [c EXCEPT !.kv = [id \in DOMAIN c.kv |->
                         <<GatherRows(c.kv[id][1], beam_idx), c.kv[id][2]>>]]

\* lines 770-773: self.cache[k] = (self.cache[k][0][beam_idx], self.cache[k][1][beam_idx]);
\* beam_idx holds row numbers (1-based)
ReindexCache(c, beam_idx) ==
    [c EXCEPT !.kv = [id \in DOMAIN c.kv |->
                         <<GatherRows(c.kv[id][1], beam_idx),
                           GatherRows(c.kv[id][2], beam_idx)>>]]

\* lines 745-776, the token buffer and the scores
BeamUpdate(b) ==
    LET n == b.bs * b.beam_size
        beam_idx == [j \in 1 .. n |-> b.next_batch_beam[j][3] + 1]
    IN  [b EXCEPT
           !.beam_scores = [j \in 1 .. n |-> b.next_batch_beam[j][1]],
           !.generated = [j \in 1 .. n |-> [t \in 1 .. b.global_max_len |->
                             IF t = b.cur_len + 1 THEN b.next_batch_beam[j][2]
                             ELSE b.generated[beam_idx[j]][t]]],
           !.beam_idx = beam_idx,
           !.cur_len = b.cur_len + 1,
           !.steps = b.steps + 1,
           !.next_batch_beam = << >>,
           !.walk = NoWalk,
           !.tensor = << >>]

\* all(done)
AllDone(b) == \A s \in 1 .. b.bs : b.done[s]

\* a plausible slip: the loop does not stop when every sentence is done
BeamContinues_NoBreak(b) == b.cur_len < b.global_max_len

\* the loop goes on: cur_len < global_max_len and no break
BeamContinues(b) ==
    /\ b.cur_len < b.global_max_len
    /\ (b.steps = 0 \/ ~AllDone(b))

\* a plausible slip: reverse=True is left out, worst score first
SortedHyps_Ascending(hyp) ==
    [n \in 1 .. Len(hyp) |->
        CHOOSE i \in 1 .. Len(hyp) :
            Cardinality({j \in 1 .. Len(hyp) :
                            \/ RLess(hyp[j][1], hyp[i][1])
                            \/ (hyp[j][1] = hyp[i][1] /\ j < i)}) = n - 1]

\* sorted(hypotheses.hyp, key=lambda x: x[0], reverse=True): the indices of hyp,
\* best score first, equal scores in the order of the list (the sort is stable)
SortedHyps(hyp) ==
    [n \in 1 .. Len(hyp) |->
        CHOOSE i \in 1 .. Len(hyp) :
            Cardinality({j \in 1 .. Len(hyp) :
                            \/ RLess(hyp[i][1], hyp[j][1])
                            \/ (hyp[j][1] = hyp[i][1] /\ j < i)}) = n - 1]

\* a plausible slip: no room for the end marker
TgtLen_NoEnd(pool) == SeqMax([n \in 1 .. Len(pool.hyp) |-> Len(pool.hyp[n][2])])

\* tgt_len[i] = max([len(hyp) for hyp in sorted_hyps]) + 1
TgtLen(pool) == SeqMax([n \in 1 .. Len(pool.hyp) |-> Len(pool.hyp[n][2])]) + 1

\* lines 804-809: decoded[:, hyp_index, i], kept as decoded[i][hyp_index]
Decoded(b, pools) ==
    LET rows == SeqMax([i \in 1 .. b.bs |-> TgtLen(pools[i])])
    IN  [i \in 1 .. b.bs |-> [h \in 1 .. b.beam_size |-> [t \in 1 .. rows |->
            IF h > Len(pools[i].hyp) THEN pad_index
            ELSE LET hypo == pools[i].hyp[SortedHyps(pools[i].hyp)[h]][2]
                 IN  IF t <= Len(hypo) THEN hypo[t]
                     ELSE IF t = Len(hypo) + 1 THEN eos_index
                     ELSE pad_index]]]

\* (decoded == self.eos_index).sum()
DecodedEosCount(decoded) ==
    LET RECURSIVE Sum(_)
        Sum(s) == IF Len(s) = 0 THEN 0 ELSE s[1] + Sum(Tail(s))
    IN  Sum([i \in 1 .. Len(decoded) |->
                Sum([h \in 1 .. Len(decoded[i]) |-> EosIn(decoded[i][h])])])

\* generate_beam(src_enc, src_len, tgt_lang_id, beam_size, length_penalty,
\* early_stopping, max_len) is entered
BeamCall(bs, beam_size, length_penalty, early_stopping, max_len) ==
    /\ pc = "idle"
    /\ cache' = FreshCache
    /\ bm' = BeamEnter(bs, beam_size, length_penalty, early_stopping, max_len)
    /\ generated_hyps' = BeamPools(bs, beam_size, length_penalty, early_stopping, max_len)
    /\ pc' = IF BeamContinues(bm') THEN "beam" ELSE "beam_final"
    /\ UNCHANGED <<fw, gen, oracle>>

\* lines 655-673: the pass of one iteration
BeamPass ==
    /\ pc = "beam"
    /\ \E r \in {Fwd(BeamArgs(bm), cache)} :
           IF r.err # "" \/ Len(r.tensor) # bm.bs * bm.beam_size \/ TimeLen(r.tensor) # 1
           THEN /\ bm' = [bm EXCEPT !.err = IF r.err # "" THEN r.err ELSE "size"]
                /\ pc' = "raised"
                /\ cache' = r.cache
           ELSE /\ bm' = [bm EXCEPT !.tensor = r.tensor, !.sent_id = 0,
                                    !.next_batch_beam = << >>]
                /\ pc' = "beam_sent"
                /\ cache' = r.cache
    /\ UNCHANGED <<fw, gen, generated_hyps, oracle>>

\* lines 677-741 for sentence bm.sent_id
BeamSent ==
    /\ pc = "beam_sent"
    /\ LET sent_id == bm.sent_id
           hidden  == [bi \in 1 .. bm.beam_size |->
                          bm.tensor[ColOf(sent_id, bi - 1, bm.beam_size)]]
       IN  IF AlreadyDone(bm, sent_id)
           THEN \* the scores of a sentence that is done are not looked at
                /\ bm' = [bm EXCEPT !.next_batch_beam =
                                        bm.next_batch_beam \o PadBeam(bm.beam_size),
                                    !.sent_id = sent_id + 1,
                                    !.walk = [NoWalk EXCEPT !.valid = TRUE,
                                                 !.sent_id = sent_id, !.was_done = TRUE,
                                                 !.done = TRUE, !.pools = generated_hyps]]
                /\ UNCHANGED <<generated_hyps, oracle>>
           ELSE \E rs \in RowChoices(hidden) :
                \E scores \in {SentScores(bm, sent_id, rs)} :
                \E next_words \in TopK(scores, DOMAIN scores, NumCandidates(bm.beam_size)) :
                \E r \in {BeamSentence(bm, generated_hyps[sent_id + 1], sent_id,
                                       scores, next_words)} :
                   /\ bm' = [bm EXCEPT !.done[sent_id + 1] = r.done,
                                       !.next_batch_beam = bm.next_batch_beam \o r.beam,
                                       !.sent_id = sent_id + 1,
                                       !.walk = [valid |-> TRUE, sent_id |-> sent_id,
                                                 was_done |-> FALSE, done |-> r.done,
                                                 scores |-> scores,
                                                 next_words |-> next_words,
                                                 pools |-> generated_hyps,
                                                 collected |-> r.collected],
                                       \* assert len(next_batch_beam) == beam_size * (sent_id + 1)
                                       !.err = IF Len(r.beam) = bm.beam_size THEN ""
                                               ELSE "size"]
                   /\ generated_hyps' = [generated_hyps EXCEPT ![sent_id + 1] = r.pool]
                   /\ oracle' = Remember(hidden, rs)
    /\ pc' = IF bm'.err # "" THEN "raised"
             ELSE IF bm.sent_id + 1 < bm.bs THEN "beam_sent" ELSE "beam_reindex"
    /\ UNCHANGED <<cache, fw, gen>>

\* lines 744-780: the next batch and the end of the iteration
BeamReindex ==
    /\ pc = "beam_reindex"
    /\ bm' = BeamUpdate(bm)
    /\ cache' = ReindexCache(cache, bm'.beam_idx)
    /\ pc' = IF BeamContinues(bm') THEN "beam" ELSE "beam_final"
    /\ UNCHANGED <<fw, gen, generated_hyps, oracle>>

\* lines 792-814: the best hypotheses, the sanity check and the return
BeamFinal ==
    /\ pc = "beam_final"
    /\ IF \E i \in 1 .. bm.bs : Len(generated_hyps[i].hyp) = 0
       THEN /\ bm' = [bm EXCEPT !.err = "empty"]
            /\ pc' = "raised"
       ELSE LET decoded == Decoded(bm, generated_hyps)
            IN  IF DecodedEosCount(decoded) = 2 * bm.beam_size * bm.bs
                THEN /\ bm' = [bm EXCEPT !.returned = TRUE, !.decoded = decoded,
                                  !.tgt_len = [i \in 1 .. bm.bs |-> TgtLen(generated_hyps[i])]]
                     /\ pc' = "idle"
                ELSE /\ bm' = [bm EXCEPT !.err = "sanity"]
                     /\ pc' = "raised"
    /\ UNCHANGED <<cache, fw, gen, generated_hyps, oracle>>

---------------------------------------------------------------------------
(* One call of generate_beam on 1 .. MaxBs sentences with 1 .. MaxBeam      *)
(* beams, a maximum length in 1 .. MaxLen, each length penalty and both     *)
(* settings of early_stopping                                               *)

InitBeam == InitGreedy

\* the smallest call in which two sentences of two beams each are reindexed
\* and decoded again
TwoByTwo(bs, beam_size, max_len) == bs = 2 /\ beam_size = 2 /\ max_len = 3

BeamSearchCall ==
    /\ bm.bs = 0
    /\ \E bs \in 1 .. MaxBs, beam_size \in 1 .. MaxBeam, max_len \in 1 .. MaxLen,
          length_penalty \in LengthPenalties, early_stopping \in BOOLEAN :
          /\ (bs * beam_size * max_len <= MaxCells \/ TwoByTwo(bs, beam_size, max_len))
          /\ BeamCall(bs, beam_size, length_penalty, early_stopping, max_len)

NextBeam == BeamSearchCall \/ BeamPass \/ BeamSent \/ BeamReindex \/ BeamFinal

SpecBeam == InitBeam /\ [][NextBeam]_vars

---------------------------------------------------------------------------
(* Properties of generate_beam *)

\* C14: generate_beam terminates.  cur_len starts at 1 and every iteration of
\* the loop runs the pass, the sentences one after the other, and the
\* reindexing, which adds one to cur_len, so the loop runs at most
\* global_max_len - 1 iterations; an iteration starts only while
\* cur_len < global_max_len and some sentence is not done, and the loop is left
\* exactly when every sentence is done or cur_len = global_max_len; after the
\* loop the call returns or raises.
C14_BeamTerminates ==
    /\ [](bm.bs > 0 =>
            /\ bm.cur_len = bm.steps + 1
            /\ bm.steps <= bm.global_max_len - 1
            /\ pc \in {"beam", "beam_sent", "beam_reindex"} => bm.cur_len < bm.global_max_len
            /\ pc = "beam" => ~AllDone(bm)
            /\ pc = "beam_sent" => bm.sent_id < bm.bs
            /\ pc \in {"beam_final", "idle"} =>
                  (AllDone(bm) \/ bm.cur_len = bm.global_max_len)
            /\ pc = "raised" => bm.err = "empty")
    /\ [][/\ pc = "beam" => pc' = "beam_sent"
          /\ pc = "beam_sent" =>
                \/ pc' = "beam_sent" /\ bm'.sent_id = bm.sent_id + 1
                \/ pc' = "beam_reindex"
          /\ pc = "beam_reindex" =>
                (bm'.cur_len = bm.cur_len + 1 /\ pc' \in {"beam", "beam_final"})
          /\ pc = "beam_final" => pc' \in {"idle", "raised"}]_vars

\* the loop was left after two iterations with every sentence done and
\* cur_len short of the maximum length
C14_Witness ==
    /\ pc = "beam_final" /\ bm.steps = 2
    /\ AllDone(bm) /\ bm.cur_len < bm.global_max_len

\* the number of end-of-sequence markers of a row after its position 0
EosAfterStart(row) == Cardinality({t \in 2 .. Len(row) : row[t] = eos_index})

\* the position (1-based) of the last end-of-sequence marker of a row
EndOf(row) == CHOOSE t \in 1 .. Len(row) :
                  row[t] = eos_index /\ \A u \in (t + 1) .. Len(row) : row[u] # eos_index

\* C2 as stated: the sequence returned first (best-scored) for every sentence
\* holds one end marker after the start, at the declared length of the
\* sentence, and the declared length is at most the maximum length.
C2_EndAtDeclaredLength ==
    (pc = "idle" /\ bm.bs > 0 /\ bm.returned) =>
        \A i \in 1 .. bm.bs :
           /\ EosAfterStart(bm.decoded[i][1]) = 1
           /\ bm.tgt_len[i] <= Len(bm.decoded[i][1])
           /\ bm.decoded[i][1][bm.tgt_len[i]] = eos_index
           /\ bm.tgt_len[i] <= bm.global_max_len

\* C2, amended: a call with maximum length at least 2 returns; each of the
\* beam_size sequences returned for a sentence starts with the start marker
\* and holds exactly one end marker after it, followed by padding only; the
\* end marker is at or before the declared length of the sentence, at the
\* declared length for a longest sequence of the sentence; and the declared
\* length is at most the maximum length.
C2_EndAtOwnLength ==
    /\ (pc = "raised" /\ bm.bs > 0) => bm.global_max_len < 2
    /\ (pc = "idle" /\ bm.bs > 0 /\ bm.returned) =>
          \A i \in 1 .. bm.bs :
             /\ Len(bm.decoded[i]) = bm.beam_size
             /\ \A h \in 1 .. bm.beam_size :
                   LET row == bm.decoded[i][h]
                   IN  /\ row[1] = eos_index
                       /\ EosAfterStart(row) = 1
                       /\ EndOf(row) \in 2 .. bm.tgt_len[i]
                       /\ \A t \in (EndOf(row) + 1) .. Len(row) : row[t] = pad_index
             /\ \E h \in 1 .. bm.beam_size : EndOf(bm.decoded[i][h]) = bm.tgt_len[i]
             /\ bm.tgt_len[i] <= bm.global_max_len

\* a sentence whose best-scored sequence ends before its declared length
C2_Witness ==
    /\ pc = "idle" /\ bm.bs > 0 /\ bm.returned /\ bm.beam_size = 2
    /\ bm.tgt_len[1] = 3
    /\ EndOf(bm.decoded[1][1]) = 2
    /\ EndOf(bm.decoded[1][2]) = 3

\* the cached pass over the tokens of column j alone, decoded against the
\* source of the sentence its hypothesis was taken from in the last reindexing
ColumnAlone(j) ==
    LET n == bm.cur_len - 1
        s == SentOfCol(bm.beam_idx[j], bm.beam_size)
    IN  Fwd(FwdArgs(<<PyHead(bm.generated[j], n)>>, <<n>>, TRUE,
                    SomeKV(SrcEnc(<<s>>, bm.bs)), SrcLen(<<s>>),
                    SomePositions(Arange(1, n)), TRUE),
            FreshCache)

\* C4: after every step of generate_beam, row j of the keys and of the values
\* of every layer, self-attention and encoder attention, is the state of the
\* hypothesis whose tokens column j of the token buffer holds; no step fails.
C4_CacheFollowsTokenBuffer ==
    /\ (bm.bs > 0) => bm.err \in {"", "empty"}
    /\ (bm.bs > 0 /\ bm.steps > 0 /\ pc \in {"beam", "beam_final"}) =>
          /\ cache.slen = bm.cur_len - 1
          /\ DOMAIN cache.kv = SelfIds \cup CrossIds
          /\ \A j \in 1 .. bm.bs * bm.beam_size :
                LET alone == ColumnAlone(j)
                IN  /\ alone.err = ""
                    /\ \A id \in DOMAIN cache.kv :
                          /\ cache.kv[id][1][j] = alone.cache.kv[id][1][1]
                          /\ cache.kv[id][2][j] = alone.cache.kv[id][2][1]

\* two beams that differed were exchanged by the reindexing of a step that is
\* not the last
C4_Witness ==
    /\ pc = "beam" /\ bm.steps = 2 /\ bm.beam_size = 2
    /\ bm.beam_idx[1] = 2 /\ bm.beam_idx[2] = 1
    /\ bm.generated[1] # bm.generated[2]

---------------------------------------------------------------------------
(* generate without sampling, then generate_beam with beam_size = 1, on the *)
(* same sentences with the same maximum length and the same model           *)

InitPair == InitGreedy

PairGreedyCall ==
    /\ gen.bs = 0
    /\ \E bs \in 1 .. MaxBs, max_len \in 1 .. MaxLen :
          /\ bs * max_len <= MaxTokens
          /\ GenCall(bs, [b \in 1 .. bs |-> max_len], FALSE)

PairBeamCall ==
    /\ gen.bs > 0 /\ gen.returned /\ bm.bs = 0
    /\ \E length_penalty \in LengthPenalties, early_stopping \in BOOLEAN :
          BeamCall(gen.bs, 1, length_penalty, early_stopping, gen.global_max_len)

NextPair ==
    \/ PairGreedyCall \/ GenStep \/ GenReturn
    \/ PairBeamCall \/ BeamPass \/ BeamSent \/ BeamReindex \/ BeamFinal

SpecPair == InitPair /\ [][NextPair]_vars

\* both calls have returned
BothReturned == pc = "idle" /\ gen.bs > 0 /\ gen.returned /\ bm.bs > 0 /\ bm.returned

\* the two calls returned the same tokens and lengths for every sentence
SameSequences ==
    \A i \in 1 .. gen.bs :
       /\ bm.tgt_len[i] = gen.out_len[i]
       /\ PyHead(bm.decoded[i][1], bm.tgt_len[i]) = PyHead(gen.out[i], gen.out_len[i])

\* C7 as stated: with beam_size = 1 generate_beam returns the token sequences
\* of generate without sampling, for every length penalty and both settings
\* of early_stopping.
C7_BeamOneIsGreedy == BothReturned => SameSequences

\* C7, amended: with beam_size = 1 and one maximum length for the batch,
\* generate_beam returns the token sequences of generate without sampling
\* when early_stopping is set or length_penalty is 0.
C7_BeamOneIsGreedyIfStopping ==
    /\ (gen.bs > 0 /\ gen.returned /\ bm.bs > 0) => pc # "raised"
    /\ (BothReturned /\ (bm.early_stopping \/ bm.length_penalty = 0)) => SameSequences

\* both returned a sentence the model ended before the maximum length, the
\* beam search run with a length penalty and early stopping
C7_Witness ==
    /\ BothReturned /\ bm.early_stopping /\ bm.length_penalty = 2
    /\ gen.global_max_len = 4 /\ gen.out_len[1] = 3
    /\ SameSequences

---------------------------------------------------------------------------
(* The life of the cache across calls *)

\* C11: the cache is fresh (no layer entries, accumulated length 0) when the
\* loop of a call of generate or generate_beam is first entered, and the model
\* holds no cache when no call is in flight (before the first call and after
\* a call has returned): a call discards it on return.
C11_CacheFreshAndDiscarded ==
    /\ (pc = "gen" /\ gen.steps = 0) => cache = FreshCache
    /\ (pc = "beam" /\ bm.steps = 0) => cache = FreshCache
    /\ pc = "idle" => ~cache.alive

\* C15: when a call of generate returns, every sentence is finished, its
\* returned length is at most its own maximum length, its token at index
\* (returned length - 1) is the end marker, emitted or forced at the maximum
\* length, and it holds only padding after it.
C15_FinishedAtEosOrMaxLength ==
    (gen.bs > 0 /\ pc = "idle" /\ gen.returned) =>
        \A b \in 1 .. gen.bs :
           /\ gen.unfinished_sents[b] = 0
           /\ gen.out_len[b] <= gen.max_lengths[b]
           /\ gen.out_len[b] <= Len(gen.out[b])
           /\ gen.out[b][gen.out_len[b]] = eos_index
           /\ \A t \in (gen.out_len[b] + 1) .. Len(gen.out[b]) : gen.out[b][t] = pad_index

---------------------------------------------------------------------------
(* Properties of the walk over the candidates of one sentence *)

\* the loop body has just visited a sentence, and the next batch is not built yet
Visited == bm.bs > 0 /\ pc \in {"beam_sent", "beam_reindex", "raised"} /\ bm.walk.valid

\* the tuples the sentence visited last added to next_batch_beam
VisitedBeam ==
    SubSeq(bm.next_batch_beam, bm.walk.sent_id * bm.beam_size + 1,
           (bm.walk.sent_id + 1) * bm.beam_size)

\* candidate idx is for the end marker
IsEosCandidate(idx) == idx % n_words = eos_index

\* the pool after add is called, in order, for the candidates idxs of sentence
\* sent_id, each with the prefix of the beam it extends
RECURSIVE HandAll(_, _, _, _, _)
HandAll(b, sent_id, scores, idxs, pool) ==
    IF Len(idxs) = 0 THEN pool
    ELSE HandAll(b, sent_id, scores, Tail(idxs),
                 BeamHypotheses_add(
                     pool,
                     PyHead(b.generated[ColOf(sent_id, idxs[1] \div n_words, b.beam_size)],
                            b.cur_len),
                     scores[idxs[1]]))

\* C18: for a sentence that is not done at a step that is not the last, the
\* candidates are 2 * beam_size in non-increasing score order, and the walk
\* stops at the candidate that is the beam_size-th not for the end marker: the
\* next beams of the sentence are exactly these beam_size candidates, in
\* order, none for the end marker, and the end-marker candidates met before
\* the stop are handed to the pool, in order, and to nothing else.
C18_WalkFillsTheBeam ==
    (Visited /\ ~bm.walk.done /\ bm.cur_len + 1 < bm.global_max_len) =>
        LET w  == bm.walk
            nw == w.next_words
        IN  /\ pc # "raised"
            /\ Len(nw) = 2 * bm.beam_size
            /\ \A n \in 1 .. (Len(nw) - 1) : w.scores[nw[n]] >= w.scores[nw[n + 1]]
            /\ w.collected = bm.beam_size
            /\ \E stop \in 1 .. Len(nw) :
                  LET met  == SubSeq(nw, 1, stop)
                      cont == SelectSeq(met, LAMBDA idx : ~IsEosCandidate(idx))
                      ends == SelectSeq(met, IsEosCandidate)
                  IN  /\ ~IsEosCandidate(nw[stop])
                      /\ Len(cont) = bm.beam_size
                      /\ VisitedBeam =
                            [n \in 1 .. bm.beam_size |->
                                <<w.scores[cont[n]], cont[n] % n_words,
                                  ColOf(w.sent_id, cont[n] \div n_words, bm.beam_size) - 1>>]
                      /\ generated_hyps[w.sent_id + 1] =
                            HandAll(bm, w.sent_id, w.scores, ends, w.pools[w.sent_id + 1])
            /\ \A n \in 1 .. bm.beam_size : VisitedBeam[n][2] # eos_index

\* with two beams the best candidate was for the end marker and went to the
\* pool, and the next two filled the beams
C18_Witness ==
    /\ Visited /\ ~bm.walk.done /\ bm.cur_len + 1 < bm.global_max_len
    /\ bm.beam_size = 2 /\ bm.walk.collected = 2
    /\ IsEosCandidate(bm.walk.next_words[1])
    /\ Len(generated_hyps[bm.walk.sent_id + 1].hyp)
          = Len(bm.walk.pools[bm.walk.sent_id + 1].hyp) + 1

\* candidate idx of the sentence visited last ends a hypothesis: it is for the
\* end marker, or the step is the last
EndsHypothesis(idx) == IsEosCandidate(idx) \/ bm.cur_len + 1 = bm.global_max_len

\* entry e of a pool is the prefix of the beam candidate idx extends, without
\* the candidate's word, scored scores[idx] / cur_len ** length_penalty
StoredFrom(e, idx) ==
    /\ e[2] = PyHead(bm.generated[ColOf(bm.walk.sent_id, idx \div n_words, bm.beam_size)],
                     bm.cur_len)
    /\ Len(e[2]) = bm.cur_len
    /\ e[1][2] > 0
    /\ e[1][1] * Pow(bm.cur_len, bm.length_penalty) = bm.walk.scores[idx] * e[1][2]

\* C19: the pools change only while a sentence is visited, and then only the
\* pool of that sentence: every hypothesis it gains is the prefix, up to the
\* current length and without the candidate's word, of the beam of a candidate
\* of that sentence that is for the end marker or is met at the last step, and
\* it gains at most one per such candidate.
C19_PoolTakesEndedCandidates ==
    /\ [](Visited =>
            LET w      == bm.walk
                before == w.pools[w.sent_id + 1].hyp
                after  == generated_hyps[w.sent_id + 1].hyp
                ended  == {n \in 1 .. Len(w.next_words) : EndsHypothesis(w.next_words[n])}
            IN  /\ \A i \in 1 .. bm.bs : i # w.sent_id + 1 => generated_hyps[i] = w.pools[i]
                /\ Len(after) <= Len(before) + Cardinality(ended)
                /\ \A e \in Range(after) \ Range(before) :
                      \E n \in ended : StoredFrom(e, w.next_words[n]))
    /\ [][(bm.bs > 0 /\ pc # "beam_sent") => generated_hyps' = generated_hyps]_vars

\* at the last step the best candidate of a sentence was not for the end
\* marker, and the prefix of its beam, two tokens long, went to the pool
C19_Witness ==
    /\ Visited /\ bm.cur_len + 1 = bm.global_max_len /\ bm.cur_len = 2
    /\ ~IsEosCandidate(bm.walk.next_words[1])
    /\ \E e \in Range(generated_hyps[bm.walk.sent_id + 1].hyp) :
          /\ e \notin Range(bm.walk.pools[bm.walk.sent_id + 1].hyp)
          /\ StoredFrom(e, bm.walk.next_words[1])

\* C20: a sentence that is done stays done and its pool is never changed
\* again; when the loop body visits a sentence that is done, or that its pool
\* reports done, it adds beam_size placeholders (score 0, the padding word,
\* beam index 0) to the next batch, collects no candidate and leaves the pool
\* as it was.
C20_DoneStaysDone ==
    /\ [](Visited /\ bm.walk.done =>
            /\ bm.walk.was_done => bm.walk.next_words = << >>
            /\ bm.done[bm.walk.sent_id + 1]
            /\ VisitedBeam = [n \in 1 .. bm.beam_size |-> <<0, pad_index, 0>>]
            /\ bm.walk.collected = 0
            /\ generated_hyps[bm.walk.sent_id + 1] = bm.walk.pools[bm.walk.sent_id + 1])
    /\ [][bm.bs > 0 =>
             \A s \in 1 .. bm.bs :
                bm.done[s] => (bm'.done[s] /\ generated_hyps'[s] = generated_hyps[s])]_vars

\* of two sentences the first was done in the second iteration; the third
\* iteration visits it again while the second sentence is still decoded
C20_Witness ==
    /\ Visited /\ bm.bs = 2 /\ bm.steps = 2
    /\ bm.walk.sent_id = 0 /\ bm.walk.was_done
    /\ ~bm.done[2]

---------------------------------------------------------------------------
(* The first expansion step *)

\* C21: beam_scores starts at 0 for beam 0 of every sentence and at the large
\* negative value for every other beam; hence, in the first step (when it is
\* not also the last) of a call whose vocabulary has at least beam_size words
\* besides the end marker, every candidate kept for a sentence continues that
\* sentence's beam 0, with a score above the large negative value.
C21_FirstStepExtendsBeamZero ==
    /\ (bm.bs > 0 /\ bm.steps = 0) =>
          \A s \in 0 .. (bm.bs - 1), beam_id \in 0 .. (bm.beam_size - 1) :
             bm.beam_scores[ColOf(s, beam_id, bm.beam_size)]
                = (IF beam_id = 0 THEN 0 ELSE NegInit)
    /\ (/\ Visited /\ bm.steps = 0 /\ bm.cur_len + 1 < bm.global_max_len
        /\ n_words - 1 >= bm.beam_size) =>
          /\ ~bm.walk.done
          /\ \A n \in 1 .. bm.beam_size :
                /\ VisitedBeam[n][3] = bm.walk.sent_id * bm.beam_size
                /\ VisitedBeam[n][1] > NegInit

\* with two beams the candidates of the first step included one of beam 1, and
\* the two that were kept both continue beam 0
C21_Witness ==
    /\ Visited /\ bm.steps = 0 /\ bm.cur_len + 1 < bm.global_max_len
    /\ bm.beam_size = 2
    /\ \E n \in 1 .. Len(bm.walk.next_words) : bm.walk.next_words[n] \div n_words = 1
    /\ \A n \in 1 .. 2 : VisitedBeam[n][3] = bm.walk.sent_id * bm.beam_size

---------------------------------------------------------------------------
(* The beams of a sentence stay in its block of columns *)

\* the columns (0-based) of sentence sent_id (0-based)
Block(sent_id) == (sent_id * bm.beam_size) .. ((sent_id + 1) * bm.beam_size - 1)

\* the cached pass over the tokens of column j alone, decoded against the
\* source of the sentence in whose block column j lies
OwnColumnAlone(j) ==
    LET n == bm.cur_len - 1
        s == SentOfCol(j, bm.beam_size)
    IN  Fwd(FwdArgs(<<PyHead(bm.generated[j], n)>>, <<n>>, TRUE,
                    SomeKV(SrcEnc(<<s>>, bm.bs)), SrcLen(<<s>>),
                    SomePositions(Arange(1, n)), TRUE),
            FreshCache)

\* C26: at a step that is followed by another, every beam index collected for
\* a sentence that is not done lies in the block of columns of that sentence;
\* and when the next pass is about to run, every column of a sentence that is
\* not done was taken from a column of the sentence's own block, and its rows
\* of the cache, self attention and encoder attention, are those of its own
\* tokens decoded against the source of its own sentence.
C26_BeamsStayInTheirBlock ==
    /\ (Visited /\ ~bm.walk.done /\ bm.cur_len + 1 < bm.global_max_len) =>
          \A n \in 1 .. bm.beam_size : VisitedBeam[n][3] \in Block(bm.walk.sent_id)
    /\ (bm.bs > 0 /\ bm.steps > 0 /\ pc = "beam") =>
          \A sent_id \in 0 .. (bm.bs - 1) :
             ~bm.done[sent_id + 1] =>
                \A j0 \in Block(sent_id) :
                   /\ (bm.beam_idx[j0 + 1] - 1) \in Block(sent_id)
                   /\ \A i \in 0 .. (n_layers - 1) :
                         cache.kv[CrossId(i)][1][j0 + 1] = SourceKeys(sent_id + 1, bm.bs)
                   /\ LET alone == OwnColumnAlone(j0 + 1)
                      IN  \A id \in DOMAIN cache.kv :
                             /\ cache.kv[id][1][j0 + 1] = alone.cache.kv[id][1][1]
                             /\ cache.kv[id][2][j0 + 1] = alone.cache.kv[id][2][1]

\* two sentences of two beams each, both still decoded after the first
\* iteration: the second sentence's columns 2 and 3 were taken from its own
\* block
C26_Witness ==
    /\ pc = "beam" /\ bm.steps = 1 /\ bm.bs = 2 /\ bm.beam_size = 2
    /\ ~bm.done[1] /\ ~bm.done[2]
    /\ bm.beam_idx[3] - 1 \in Block(1) /\ bm.beam_idx[4] - 1 \in Block(1)
    /\ bm.generated[3] # bm.generated[4]

---------------------------------------------------------------------------
(* The pools when the loop of generate_beam has ended *)

\* the orders in which the slots of a sentence can list the n entries of its pool
SlotOrders(n) == {f \in [1 .. n -> 1 .. n] : \A a, b \in 1 .. n : a # b => f[a] # f[b]}

\* a returned row holds the tokens of hypothesis hypo, the end marker, padding
HoldsHypothesis(row, hypo) ==
    /\ Len(row) > Len(hypo)
    /\ \A t \in 1 .. Len(row) :
          row[t] = (IF t <= Len(hypo) THEN hypo[t]
                    ELSE IF t = Len(hypo) + 1 THEN eos_index ELSE pad_index)

====
